---- MODULE Spec2Model ----
(***************************************************************************)
(* Model of table_updates/table_updater.py: the CSV reconciliation engine  *)
(* (TableUpdater.process_csv_files and the operations it drives).          *)
(*                                                                         *)
(* Text (file names, column names, declared types, cell values) is a tuple *)
(* of one-character strings, so that strip(), lower(), the file-name       *)
(* pattern and the date patterns are computed character by character.      *)
(***************************************************************************)
EXTENDS Integers, Sequences, FiniteSets, TLC

----------------------------------------------------------------------------
(* Bounds of the model. *)

\* Largest number of CSV files os.listdir yields for a job folder.
MaxFiles == 2

\* Largest number of store calls that fail (raise) in one run.
MaxStoreFailures == 1

\* chunk_size of process_update_job; 1000 in the source, scaled down so that
\* the files of the catalogue span several chunks.
chunk_size == 2

\* log_error calls explored on one job folder.
MaxLogCalls == 3

\* Writes of errors.json that may fail in a run.
MaxWriteFailures == 1

\* Times _convert_date_value is applied in a row to one value.
MaxApplications == 2

----------------------------------------------------------------------------
(* Text helpers: str.strip, str.lower, str.upper, "x in s", digits. *)

Whitespace == {" "}

Digit == {"0", "1", "2", "3", "4", "5", "6", "7", "8", "9"}

DigitVal(c) ==
    CASE c = "0" -> 0 [] c = "1" -> 1 [] c = "2" -> 2 [] c = "3" -> 3
      [] c = "4" -> 4 [] c = "5" -> 5 [] c = "6" -> 6 [] c = "7" -> 7
      [] c = "8" -> 8 [] c = "9" -> 9

AllDigits(s) == \A i \in DOMAIN s : s[i] \in Digit

RECURSIVE ToNat(_)
ToNat(s) ==
    IF s = <<>> THEN 0
    ELSE 10 * ToNat(SubSeq(s, 1, Len(s) - 1)) + DigitVal(s[Len(s)])

RECURSIVE LStrip(_)
LStrip(s) ==
    IF s # <<>> /\ Head(s) \in Whitespace THEN LStrip(Tail(s)) ELSE s

RECURSIVE RStrip(_)
RStrip(s) ==
    IF s # <<>> /\ s[Len(s)] \in Whitespace
    THEN RStrip(SubSeq(s, 1, Len(s) - 1)) ELSE s

\* str.strip()
Strip(s) == RStrip(LStrip(s))

LowerCh(c) ==
    CASE c = "A" -> "a"
      [] c = "B" -> "b"
      [] c = "C" -> "c"
      [] c = "D" -> "d"
      [] c = "E" -> "e"
      [] c = "F" -> "f"
      [] c = "G" -> "g"
      [] c = "H" -> "h"
      [] c = "I" -> "i"
      [] c = "J" -> "j"
      [] c = "K" -> "k"
      [] c = "L" -> "l"
      [] c = "M" -> "m"
      [] c = "N" -> "n"
      [] c = "O" -> "o"
      [] c = "P" -> "p"
      [] c = "Q" -> "q"
      [] c = "R" -> "r"
      [] c = "S" -> "s"
      [] c = "T" -> "t"
      [] c = "U" -> "u"
      [] c = "V" -> "v"
      [] c = "W" -> "w"
      [] c = "X" -> "x"
      [] c = "Y" -> "y"
      [] c = "Z" -> "z"
      [] OTHER -> c

UpperCh(c) ==
    CASE c = "a" -> "A"
      [] c = "b" -> "B"
      [] c = "c" -> "C"
      [] c = "d" -> "D"
      [] c = "e" -> "E"
      [] c = "f" -> "F"
      [] c = "g" -> "G"
      [] c = "h" -> "H"
      [] c = "i" -> "I"
      [] c = "j" -> "J"
      [] c = "k" -> "K"
      [] c = "l" -> "L"
      [] c = "m" -> "M"
      [] c = "n" -> "N"
      [] c = "o" -> "O"
      [] c = "p" -> "P"
      [] c = "q" -> "Q"
      [] c = "r" -> "R"
      [] c = "s" -> "S"
      [] c = "t" -> "T"
      [] c = "u" -> "U"
      [] c = "v" -> "V"
      [] c = "w" -> "W"
      [] c = "x" -> "X"
      [] c = "y" -> "Y"
      [] c = "z" -> "Z"
      [] OTHER -> c

\* str.lower()
Lower(s) == [i \in DOMAIN s |-> LowerCh(s[i])]

\* str.upper()
Upper(s) == [i \in DOMAIN s |-> UpperCh(s[i])]

\* Python's "sub in s" on strings.
Contains(sub, s) ==
    \E i \in 0..(Len(s) - Len(sub)) : SubSeq(s, i + 1, i + Len(sub)) = sub

EndsWith(s, suf) ==
    Len(s) >= Len(suf) /\ SubSeq(s, Len(s) - Len(suf) + 1, Len(s)) = suf

\* The elements of a sequence, and a sequence without repeats filtered by a test.
Range(s) == {s[i] : i \in DOMAIN s}

----------------------------------------------------------------------------
(* Cell values.  pandas' missing value (NaN / <NA>) and SQL NULL are tokens *)
(* that no text can equal (text is made of one-character strings).         *)

NA == <<"NaN">>

NULL == <<"NULL">>

\* pd.notna(value)
notna(value) == value # NA

\* isinstance(value, str) and value.strip() == ''
IsBlankStr(value) == notna(value) /\ Strip(value) = <<>>

----------------------------------------------------------------------------
(* _convert_date_value: the four date patterns, tried in order, each        *)
(* rewrite validated by datetime.strptime(converted, '%Y-%m-%d').           *)

SepPos(v, sep) == {i \in DOMAIN v : v[i] = sep}

\* The three groups of  ^(\d{la})sep(\d{lb})sep(\d{lc})$  or <<>> when the
\* pattern does not match; la, lb, lc are the sets of allowed group lengths.
GroupsIf(a, b, c, la, lb, lc) ==
    IF /\ AllDigits(a) /\ AllDigits(b) /\ AllDigits(c)
       /\ Len(a) \in la /\ Len(b) \in lb /\ Len(c) \in lc
    THEN <<a, b, c>> ELSE <<>>

SplitAt(v, i, j, la, lb, lc) ==
    GroupsIf(SubSeq(v, 1, i - 1), SubSeq(v, i + 1, j - 1), SubSeq(v, j + 1, Len(v)),
             la, lb, lc)

SplitOn(v, P, la, lb, lc) ==
    IF Cardinality(P) # 2 THEN <<>>
    ELSE SplitAt(v, CHOOSE p \in P : \A q \in P : p <= q,
                    CHOOSE p \in P : \A q \in P : q <= p, la, lb, lc)

MatchGroups(v, sep, la, lb, lc) == SplitOn(v, SepPos(v, sep), la, lb, lc)

\* format spec  :0>2
Pad2(x) == IF Len(x) < 2 THEN <<"0">> \o x ELSE x

IsLeap(y) == (y % 4 = 0 /\ y % 100 # 0) \/ y % 400 = 0

DaysInMonth(y, m) ==
    IF m \in {4, 6, 9, 11} THEN 30
    ELSE IF m = 2 THEN (IF IsLeap(y) THEN 29 ELSE 28)
    ELSE 31

\* datetime.strptime(y-m-d, '%Y-%m-%d') does not raise ValueError.
ValidDate(y, m, d) ==
    /\ ToNat(y) >= 1
    /\ ToNat(m) \in 1..12
    /\ ToNat(d) >= 1 /\ ToNat(d) <= DaysInMonth(ToNat(y), ToNat(m))

\* date_patterns, in the order of the source: separator and place of the year.
date_patterns ==
    << [sep |-> "/", year_first |-> FALSE],
       [sep |-> "-", year_first |-> FALSE],
       [sep |-> "/", year_first |-> TRUE],
       [sep |-> "-", year_first |-> TRUE] >>

\* One turn of the loop over date_patterns: <<converted>> when the pattern
\* matches and the rewrite is a valid date, <<>> otherwise (continue).
\* The converter of a pattern applied to the groups y, m, d of its match,
\* then validated.
Converted(y, m, d) ==
    IF ValidDate(y, m, d)
    THEN << y \o <<"-">> \o Pad2(m) \o <<"-">> \o Pad2(d) >>
    ELSE <<>>

\* Variant: a year-first match is rewritten with day and month exchanged.
ConvertGroups_Swapped(p, g) ==
    IF g = <<>> THEN <<>>
    ELSE IF p.year_first THEN Converted(g[1], g[3], g[2])
    ELSE Converted(g[3], g[1], g[2])

ConvertGroups(p, g) ==
    IF g = <<>> THEN <<>>
    ELSE IF p.year_first THEN Converted(g[1], g[2], g[3])
    ELSE Converted(g[3], g[1], g[2])

TryPattern(v, p) ==
    ConvertGroups(p, IF p.year_first
                     THEN MatchGroups(v, p.sep, {4}, {1, 2}, {1, 2})
                     ELSE MatchGroups(v, p.sep, {1, 2}, {1, 2}, {4}))

RECURSIVE TryPatterns(_, _)
ReturnOrContinue(r, v, k) == IF r # <<>> THEN r[1] ELSE TryPatterns(v, k + 1)

TryPatterns(v, k) ==
    IF k > Len(date_patterns) THEN v
    ELSE ReturnOrContinue(TryPattern(v, date_patterns[k]), v, k)

_convert_date_value(value) ==
    IF ~notna(value) \/ Strip(value) = <<>> THEN value
    ELSE TryPatterns(Strip(value), 1)

----------------------------------------------------------------------------
(* parse_csv_filename: re.match(csv_filename_pattern, filename) with        *)
(* csv_filename_pattern = ^(.+)_(append|update)_(\d+)\.csv$                 *)

APPEND == <<"a", "p", "p", "e", "n", "d">>

UPDATE == <<"u", "p", "d", "a", "t", "e">>

supported_job_types == {APPEND, UPDATE}

RECURSIVE TrailingDigits(_)
TrailingDigits(s) ==
    IF s # <<>> /\ s[Len(s)] \in Digit
    THEN TrailingDigits(SubSeq(s, 1, Len(s) - 1)) + 1 ELSE 0

\* "$" of a pattern without re.MULTILINE matches at the end of the text and
\* also just before a newline that ends the text: what is left to match.
BeforeDollar(text) ==
    IF text # <<>> /\ text[Len(text)] = "\n"
    THEN SubSeq(text, 1, Len(text) - 1) ELSE text

\* The groups (table_name, job_type, seq_num) of the match, or <<>> when the
\* name does not match.  The digits group is preceded by "_", so it is the
\* whole run of digits before ".csv"; (.+) is what is left in front, at
\* least one character and none of them a newline.
NameGroups(name) ==
    IF ~EndsWith(name, <<".", "c", "s", "v">>) THEN <<>>
    ELSE LET body == SubSeq(name, 1, Len(name) - 4)
             nd   == TrailingDigits(body)
             rest == SubSeq(body, 1, Len(body) - nd)
         IN IF nd = 0 THEN <<>>
            ELSE IF \E op \in {APPEND, UPDATE} :
                        /\ EndsWith(rest, <<"_">> \o op \o <<"_">>)
                        /\ Len(rest) > Len(op) + 2
                        /\ \A i \in 1..(Len(rest) - 8) : rest[i] # "\n"
                 THEN << SubSeq(rest, 1, Len(rest) - 8),
                         SubSeq(rest, Len(rest) - 6, Len(rest) - 1),
                         SubSeq(body, Len(body) - nd + 1, Len(body)) >>
                 ELSE <<>>

csv_filename_match(filename) == NameGroups(BeforeDollar(filename))

\* A variant of parse_csv_filename that takes a name that does not match as
\* an append file for the table of that name; C11 rejects it.
parse_csv_filename_Lenient(filename) ==
    LET m == csv_filename_match(filename) IN
    IF m = <<>>
    THEN [ok |-> TRUE, table_name |-> filename, job_type |-> APPEND, seq_num |-> <<"0">>]
    ELSE [ok |-> TRUE, table_name |-> m[1], job_type |-> m[2], seq_num |-> m[3]]

\* [ok |-> FALSE] stands for the ValueError parse_csv_filename raises.
parse_csv_filename(filename) ==
    LET m == csv_filename_match(filename) IN
    IF m = <<>> THEN [ok |-> FALSE]
    ELSE IF m[2] \notin supported_job_types THEN [ok |-> FALSE]
    ELSE [ok |-> TRUE, table_name |-> m[1], job_type |-> m[2], seq_num |-> m[3]]

----------------------------------------------------------------------------
(* _duckdb_to_pandas_dtype: declared type -> pandas dtype, by substring.    *)

T_VARCHAR == <<"V", "A", "R", "C", "H", "A", "R">>

T_CHAR == <<"C", "H", "A", "R">>

T_TEXT == <<"T", "E", "X", "T">>

T_INTEGER == <<"I", "N", "T", "E", "G", "E", "R">>

T_INT == <<"I", "N", "T">>

T_BIGINT == <<"B", "I", "G", "I", "N", "T">>

T_SMALLINT == <<"S", "M", "A", "L", "L", "I", "N", "T">>

T_TINYINT == <<"T", "I", "N", "Y", "I", "N", "T">>

T_DOUBLE == <<"D", "O", "U", "B", "L", "E">>

T_REAL == <<"R", "E", "A", "L">>

T_FLOAT == <<"F", "L", "O", "A", "T">>

T_DECIMAL == <<"D", "E", "C", "I", "M", "A", "L">>

T_NUMERIC == <<"N", "U", "M", "E", "R", "I", "C">>

T_BOOLEAN == <<"B", "O", "O", "L", "E", "A", "N">>

T_BOOL == <<"B", "O", "O", "L">>

T_DATE == <<"D", "A", "T", "E">>

T_TIME == <<"T", "I", "M", "E">>

T_TIMESTAMP == <<"T", "I", "M", "E", "S", "T", "A", "M", "P">>

_duckdb_to_pandas_dtype(duckdb_type) ==
    LET t == Upper(duckdb_type) IN
    IF Contains(T_VARCHAR, t) \/ Contains(T_CHAR, t) \/ t = T_TEXT
        THEN "str"
    ELSE IF \E w \in {T_INTEGER, T_INT, T_BIGINT, T_SMALLINT, T_TINYINT} :
                Contains(w, t)
        THEN "Int64"
    ELSE IF \E w \in {T_DOUBLE, T_REAL, T_FLOAT, T_DECIMAL, T_NUMERIC} :
                Contains(w, t)
        THEN "float64"
    ELSE IF Contains(T_BOOLEAN, t) \/ Contains(T_BOOL, t)
        THEN "boolean"
    ELSE IF \E w \in {T_DATE, T_TIME, T_TIMESTAMP} : Contains(w, t)
        THEN "str"
    ELSE "str"

----------------------------------------------------------------------------
(* The store (the DuckDB file at db_path): tables, their declared columns  *)
(* and their records.  A record maps every declared column to a value or   *)
(* NULL; values are kept as they were written.                             *)

\* Column names of the tables of the model.
c_k == <<"k">>

c_n == <<"n">>

c_d == <<"d">>

c_v == <<"v">>

\* Table names: t and w and e exist in the store; x does not.
tbl_t == <<"t">>

tbl_w == <<"w">>

tbl_e == <<"e">>

tbl_x == <<"x">>

DbTables == {tbl_t, tbl_w, tbl_e}

\* What DESCRIBE "table" returns: (column_name, column_type) in table order.
Describe(table_name) ==
    << <<c_k, T_VARCHAR>>, <<c_n, T_BIGINT>>, <<c_d, T_DATE>>, <<c_v, T_VARCHAR>> >>

DbColumns(table_name) == {Describe(table_name)[i][1] : i \in DOMAIN Describe(table_name)}

\* A quoted identifier "col" names the declared column it equals up to case;
\* <<>> when there is none (the statement then raises a binder error).
ResolveColumn(table_name, col) ==
    LET hit == {c \in DbColumns(table_name) : Lower(c) = Lower(col)}
    IN IF hit = {} THEN <<>> ELSE CHOOSE c \in hit : TRUE

\* Every column a statement names exists in the table.
Binds(table_name, cols) ==
    /\ table_name \in DbTables
    /\ \A i \in DOMAIN cols : ResolveColumn(table_name, cols[i]) # <<>>

\* WHERE "f1" = ? AND "f2" = ? ... on one record; conds is a sequence of
\* <<field, value>>.  NULL equals nothing.
RecordMatches(table_name, rec, conds) ==
    \A i \in DOMAIN conds :
        LET c == ResolveColumn(table_name, conds[i][1])
        IN rec[c] # NULL /\ rec[c] = conds[i][2]

\* Variant: the count does not see the record inserted last.
DbCount_MissesLatest(table_name, recs, conds) ==
    Cardinality({i \in 1..(Len(recs) - 1) : RecordMatches(table_name, recs[i], conds)})

\* SELECT COUNT(*) FROM table WHERE ...
DbCount(table_name, recs, conds) ==
    Cardinality({i \in DOMAIN recs : RecordMatches(table_name, recs[i], conds)})

\* The value a parameter writes: None is written as NULL.
Written(pairs, table_name, c) ==
    LET hit == {i \in DOMAIN pairs : ResolveColumn(table_name, pairs[i][1]) = c}
    IN IF hit = {} THEN <<>>
       ELSE << pairs[CHOOSE i \in hit : \A j \in hit : j <= i][2] >>

\* INSERT INTO table (cols) VALUES (?...): pairs is a sequence of <<col, value>>;
\* columns that are not named are NULL.
DbInsert(table_name, recs, pairs) ==
    Append(recs,
           [c \in DbColumns(table_name) |->
               LET w == Written(pairs, table_name, c)
               IN IF w = <<>> THEN NULL ELSE w[1]])

\* UPDATE table SET cols = ? WHERE ...: every record the predicate matches
\* gets the SET values; the others are left as they are.
DbUpdate(table_name, recs, pairs, conds) ==
    [i \in DOMAIN recs |->
        IF RecordMatches(table_name, recs[i], conds)
        THEN [c \in DbColumns(table_name) |->
                 LET w == Written(pairs, table_name, c)
                 IN IF w = <<>> THEN recs[i][c] ELSE w[1]]
        ELSE recs[i]]

----------------------------------------------------------------------------
(* Reading a CSV file: header, dtypes derived from the table schema, and   *)
(* the cells parsed under those dtypes (keep_default_na=False).            *)

\* _get_table_schema: column name -> upper-cased declared type.
_get_table_schema(table_name) ==
    [c \in DbColumns(table_name) |->
        Upper((CHOOSE d \in Range(Describe(table_name)) : d[1] = c)[2])]

\* The dtype mapping of _get_csv_dtypes_from_schema; schema_ok is FALSE when
\* the schema lookup raised, and the function then returns str for every column.
_get_csv_dtypes_from_schema(header, table_name, schema_ok) ==
    [col \in Range(header) |->
        IF schema_ok /\ col \in DbColumns(table_name)
        THEN _duckdb_to_pandas_dtype(_get_table_schema(table_name)[col])
        ELSE "str"]

\* What the parser cannot represent under the dtype asked for.
ParseError == <<"ValueError">>

RECURSIVE StripZeros(_)
StripZeros(s) ==
    IF Len(s) > 1 /\ Head(s) = "0" THEN StripZeros(Tail(s)) ELSE s

\* One cell under a dtype: text is kept as it is (an empty cell is the empty
\* string); a nullable number is missing when the cell is empty.
ParseCell(dtype, text) ==
    IF dtype = "str" THEN text
    ELSE IF text = <<>> THEN NA
    ELSE IF dtype \in {"Int64", "float64"} /\ AllDigits(text) THEN StripZeros(text)
    ELSE ParseError

\* The rows of the data frame: each a function from header column to value.
ParseRows(file, dtypes) ==
    [r \in DOMAIN file.rows |->
        [col \in Range(file.header) |->
            LET j == CHOOSE j \in DOMAIN file.header : file.header[j] = col
            IN ParseCell(dtypes[col], file.rows[r][j])]]

\* The parse raises: some cell of rows lo..hi cannot be represented.
CoercionFails(file, dtypes, lo, hi) ==
    \E r \in DOMAIN file.rows : \E j \in DOMAIN file.header :
        /\ lo <= r /\ r <= hi
        /\ ParseCell(dtypes[file.header[j]], file.rows[r][j]) = ParseError

\* _preprocess_row_data: date conversion of the non-missing values of the
\* columns whose declared type contains DATE or TIMESTAMP.
_preprocess_row_data(row, table_schema) ==
    [col \in DOMAIN row |->
        IF notna(row[col]) /\ col \in DOMAIN table_schema
        THEN IF Contains(T_DATE, Upper(table_schema[col]))
                 THEN _convert_date_value(row[col])
             ELSE IF Contains(T_TIMESTAMP, Upper(table_schema[col]))
                 THEN _convert_date_value(row[col])
             ELSE row[col]
        ELSE row[col]]

----------------------------------------------------------------------------
(* Inputs: the filter criteria, the CSV files a job folder may hold and    *)
(* the records the store may hold at the start.                            *)

\* self.filtering_criteria, as loaded from filtering_criteria.json.
filtering_criteria ==
    (tbl_t :> [filter_fields |-> <<c_k, c_n, c_d>>]) @@
    (tbl_e :> [filter_fields |-> <<>>]) @@
    (tbl_x :> [filter_fields |-> <<c_k>>])

\* A variant of FilterFieldsOf that falls back to the first column of the
\* table when the criteria have no entry; C10 rejects it.
FilterFieldsOf_Fallback(table_name) ==
    IF table_name \in DOMAIN filtering_criteria
    THEN filtering_criteria[table_name].filter_fields ELSE <<c_k>>

\* self.filtering_criteria.get(table_name, {}).get("filter_fields", [])
FilterFieldsOf(table_name) ==
    IF table_name \in DOMAIN filtering_criteria
    THEN filtering_criteria[table_name].filter_fields ELSE <<>>

\* An update file for t: rows with both filter fields, with one, with none.
f_update_t ==
    [name   |-> <<"t", "_", "u", "p", "d", "a", "t", "e", "_", "1", ".", "c", "s", "v">>,
     header |-> <<<<"k">>, <<"n">>, <<"v">>>>,
     rows   |-> <<<<<<"a">>, <<"7">>, <<"x">>>>,
                <<<<"b">>, <<>>, <<"y">>>>,
                <<<<>>, <<>>, <<"z">>>>,
                <<<<"a">>, <<>>, <<" ">>>>,
                <<<<"b">>, <<>>, <<"w">>>>>>]

\* An append file for t; its two rows agree on the filter fields k and n.
f_append_t ==
    [name   |-> <<"t", "_", "a", "p", "p", "e", "n", "d", "_", "1", ".", "c", "s", "v">>,
     header |-> <<<<"k">>, <<"n">>, <<"d">>, <<"v">>>>,
     rows   |-> <<<<<<"a">>, <<"7">>, <<"7", "/", "1", "/", "2", "0", "2", "5">>, <<"x">>>>,
                <<<<"a">>, <<"0", "7">>, <<"2", "0", "2", "5", "-", "0", "7", "-", "0", "1">>, <<" ">>>>>>]

\* A file whose name has no operation keyword.
f_badname ==
    [name   |-> <<"s", "a", "l", "e", "s", ".", "c", "s", "v">>,
     header |-> <<<<"k">>>>,
     rows   |-> <<<<<<"a">>>>>>]

\* An update file for w, which has no entry in the filter criteria.
f_update_w ==
    [name   |-> <<"w", "_", "u", "p", "d", "a", "t", "e", "_", "1", ".", "c", "s", "v">>,
     header |-> <<<<"k">>>>,
     rows   |-> <<<<<<"a">>>>>>]

\* An update file for e, whose filter_fields list is empty.
f_update_e ==
    [name   |-> <<"e", "_", "u", "p", "d", "a", "t", "e", "_", "1", ".", "c", "s", "v">>,
     header |-> <<<<"k">>>>,
     rows   |-> <<<<<<"a">>>>>>]

\* An update file with a column the table does not have.
f_bogus ==
    [name   |-> <<"t", "_", "u", "p", "d", "a", "t", "e", "_", "2", ".", "c", "s", "v">>,
     header |-> <<<<"k">>, <<"b", "o", "g", "u", "s">>>>,
     rows   |-> <<<<<<"a">>, <<"q">>>>>>]

\* An append file whose header differs from the table's columns in case and in
\* surrounding whitespace only.
f_padded ==
    [name   |-> <<"t", "_", "a", "p", "p", "e", "n", "d", "_", "2", ".", "c", "s", "v">>,
     header |-> <<<<"K">>, <<" ", "v">>>>,
     rows   |-> <<<<<<"a">>, <<"x">>>>>>]

\* An update file for x, a table the store does not have.
f_update_x ==
    [name   |-> <<"x", "_", "u", "p", "d", "a", "t", "e", "_", "1", ".", "c", "s", "v">>,
     header |-> <<<<"k">>>>,
     rows   |-> <<<<<<"a">>>>>>]

\* An update file whose third row has text in the BIGINT column n.
f_update_bad ==
    [name   |-> <<"t", "_", "u", "p", "d", "a", "t", "e", "_", "3", ".", "c", "s", "v">>,
     header |-> <<<<"k">>, <<"n">>>>,
     rows   |-> <<<<<<"a">>, <<"7">>>>,
                <<<<"b">>, <<"7">>>>,
                <<<<"a">>, <<"z", "z">>>>>>]

\* An append file with text in the BIGINT column n.
f_append_bad ==
    [name   |-> <<"t", "_", "a", "p", "p", "e", "n", "d", "_", "3", ".", "c", "s", "v">>,
     header |-> <<<<"k">>, <<"n">>>>,
     rows   |-> <<<<<<"b">>, <<"z", "z">>>>>>]

\* An update file whose filter field d is a date written M/D/YYYY, twice.
f_update_date ==
    [name   |-> <<"t", "_", "u", "p", "d", "a", "t", "e", "_", "4", ".", "c", "s", "v">>,
     header |-> <<<<"k">>, <<"d">>>>,
     rows   |-> <<<<<<"a">>, <<"7", "/", "1", "/", "2", "0", "2", "5">>>>,
                <<<<"a">>, <<"7", "/", "1", "/", "2", "0", "2", "5">>>>>>]

\* An append file with the BIGINT column n alone, whose second row is the
\* empty field "".
f_append_blank ==
    [name   |-> <<"t", "_", "a", "p", "p", "e", "n", "d", "_", "4", ".", "c", "s", "v">>,
     header |-> <<<<"n">>>>,
     rows   |-> <<<<<<"5">>>>, <<<<>>>>, <<<<"6">>>>>>]

Catalog ==
    << f_update_t,
       f_append_t,
       f_badname,
       f_update_w,
       f_update_e,
       f_bogus,
       f_padded,
       f_update_x,
       f_update_bad,
       f_append_bad,
       f_update_date,
       f_append_blank >>

\* Sequences of distinct catalogue files, of length n.
RECURSIVE Folders(_)
Folders(n) ==
    IF n = 0 THEN {<<>>}
    ELSE {Append(f, i) : f \in Folders(n - 1), i \in DOMAIN Catalog}

DistinctFolders ==
    {f \in UNION {Folders(n) : n \in 0..MaxFiles} :
        \A i, j \in DOMAIN f : i # j => f[i] # f[j]}

Rec(k, n, d, v) == (c_k :> k) @@ (c_n :> n) @@ (c_d :> d) @@ (c_v :> v)

\* The records of table t at the start: none, one, or two that agree on k and n.
InitialRecords ==
    { <<>>,
      << Rec(<<"a">>, <<"7">>, NULL, <<"o">>) >>,
      << Rec(<<"a">>, <<"7">>, NULL, <<"o">>), Rec(<<"a">>, <<"7">>, NULL, <<"x">>) >> }

----------------------------------------------------------------------------
(* The per-row logic of process_update_job, _insert_row and _update_row.   *)

\* A variant of where_conditions without the blank-string test; C5 rejects it.
where_conditions_KeepsBlank(row, filter_fields) ==
    LET usable == SelectSeq(filter_fields,
                     LAMBDA field : field \in DOMAIN row /\ notna(row[field]))
    IN [i \in DOMAIN usable |-> <<usable[i], row[usable[i]]>>]

\* where_conditions / param_values: one <<field, value>> for every configured
\* filter field that is in the row, not missing and not a blank string.
where_conditions(row, filter_fields) ==
    LET usable == SelectSeq(filter_fields,
                     LAMBDA field : /\ field \in DOMAIN row
                                    /\ notna(row[field])
                                    /\ ~IsBlankStr(row[field]))
    IN [i \in DOMAIN usable |-> <<usable[i], row[usable[i]]>>]

\* filter_values of the "Multiple matching records found" record: the second
\* loop over filter_fields, a dict field -> value.
conflict_filter_values(row, filter_fields) ==
    LET fields == {field \in Range(filter_fields) :
                      /\ field \in DOMAIN row
                      /\ notna(row[field]) /\ ~IsBlankStr(row[field])}
    IN [field \in fields |-> row[field]]

\* "row" of a row-level error record; index is the label of the row in the
\* data frame, which pandas numbers from 0 through the whole file.
error_row(chunk_idx, csize, index) == chunk_idx * csize + index + 1

\* A variant of match_branch that updates whatever the count, when it is not
\* zero; C3 rejects it.
match_branch_Upsert(count) ==
    IF count = 0 THEN "insert" ELSE "update"

\* The branch taken on result[0] of the count query.
match_branch(count) ==
    IF count = 0 THEN "insert" ELSE IF count = 1 THEN "update" ELSE "conflict"

\* A variant of InsertParams that writes a blank string as it is; C17 rejects it.
InsertParams_KeepsBlank(prow, cols) ==
    [i \in DOMAIN cols |-> <<cols[i], prow[cols[i]]>>]

\* columns / values of _insert_row, as <<column, value>> in row.index order:
\* missing values are left out, blank strings are written as None.
InsertParams(prow, cols) ==
    [i \in DOMAIN cols |->
        <<cols[i], IF IsBlankStr(prow[cols[i]]) THEN NULL ELSE prow[cols[i]]>>]

InsertColumns(prow, header) ==
    InsertParams(prow, SelectSeq(header, LAMBDA col : notna(prow[col])))

_insert_row(row, header, table_schema) ==
    InsertColumns(_preprocess_row_data(row, table_schema), header)

\* set_clauses / set_values of _update_row, as <<column, value>>.
UpdateParams(prow, cols) ==
    [i \in DOMAIN cols |->
        <<cols[i], IF IsBlankStr(prow[cols[i]]) THEN NULL ELSE prow[cols[i]]>>]

UpdateColumns(prow, header) ==
    UpdateParams(prow, SelectSeq(header, LAMBDA col : notna(prow[col])))

_update_row(row, header, table_schema) ==
    UpdateColumns(_preprocess_row_data(row, table_schema), header)

\* The error records of process_update_job's rows.
NoFilterError(file_name, row_no, filter_fields) ==
    [file |-> file_name, row |-> row_no,
     error |-> "No valid filter conditions found in row",
     filter_fields |-> filter_fields]

ConflictError(file_name, row_no, filter_fields, filter_values, match_count) ==
    [file |-> file_name, row |-> row_no,
     error |-> "Multiple matching records found",
     filter_fields |-> filter_fields,
     filter_values |-> filter_values,
     match_count |-> match_count]

\* One row of an update file against the records recs of its table, when no
\* store call raises: the branch taken, the statements issued, the error
\* record logged if any, and the records afterwards.  index is the 0-based
\* position of the row in the file, csize the chunk size in force.
NoFilterResult(err, recs) ==
    [branch |-> "nofilter", conds |-> <<>>, count |-> 0, pairs |-> <<>>,
     errs |-> <<err>>, recs |-> recs]

\* The second components of a sequence of <<name, value>>: the values list
\* built next to a list of clauses.
ValuesOf(pairs) == [i \in DOMAIN pairs |-> pairs[i][2]]

NamesOf(pairs) == [i \in DOMAIN pairs |-> pairs[i][1]]

\* A variant of all_params with the WHERE values first; C16 rejects it.
all_params_WhereFirst(set_values, where_params) == where_params \o set_values

\* all_params of _update_row: the SET values, then the WHERE values.
all_params(set_values, where_params) == set_values \o where_params

\* How the UPDATE statement takes its parameters: the placeholders of the SET
\* clause come first in the text, those of the WHERE clause after them.
BoundSet(cols, params) == [i \in DOMAIN cols |-> <<cols[i], params[i]>>]

BoundWhere(cols, fields, params) ==
    [i \in DOMAIN fields |-> <<fields[i], params[Len(cols) + i]>>]

ExecUpdate(table_name, recs, cols, fields, params) ==
    DbUpdate(table_name, recs, BoundSet(cols, params), BoundWhere(cols, fields, params))

InsertResult(table_name, recs, conds, count, pairs) ==
    [branch |-> "insert", conds |-> conds, count |-> count, pairs |-> pairs,
     params |-> ValuesOf(pairs),
     errs |-> <<>>, recs |-> DbInsert(table_name, recs, pairs)]

\* A variant of UpdateResult whose UPDATE has no WHERE clause; C2 rejects it.
UpdateResult_NoWhere(table_name, recs, conds, count, pairs) ==
    [branch |-> "update", conds |-> conds, count |-> count, pairs |-> pairs,
     params |-> all_params(ValuesOf(pairs), ValuesOf(conds)),
     errs |-> <<>>,
     recs |-> IF pairs = <<>> THEN recs ELSE DbUpdate(table_name, recs, pairs, <<>>)]

UpdateResult(table_name, recs, conds, count, pairs) ==
    [branch |-> "update", conds |-> conds, count |-> count, pairs |-> pairs,
     params |-> all_params(ValuesOf(pairs), ValuesOf(conds)),
     errs |-> <<>>,
     recs |-> IF pairs = <<>> THEN recs
              ELSE ExecUpdate(table_name, recs, NamesOf(pairs), NamesOf(conds),
                              all_params(ValuesOf(pairs), ValuesOf(conds)))]

ConflictResult(recs, conds, count, err) ==
    [branch |-> "conflict", conds |-> conds, count |-> count, pairs |-> <<>>,
     errs |-> <<err>>, recs |-> recs]

\* A variant of Branch that sends a row without a match to _update_row; C4
\* rejects it.
Branch_UpdateOnZero(file, table_name, recs, row, row_no, filter_fields, conds, count, branch) ==
    IF branch \in {"insert", "update"}
    THEN UpdateResult(table_name, recs, conds, count,
                      _update_row(row, file.header, _get_table_schema(table_name)))
    ELSE ConflictResult(recs, conds, count,
             ConflictError(file.name, row_no, filter_fields,
                           conflict_filter_values(row, filter_fields), count))

Branch(file, table_name, recs, row, row_no, filter_fields, conds, count, branch) ==
    IF branch = "insert"
    THEN InsertResult(table_name, recs, conds, count,
                      _insert_row(row, file.header, _get_table_schema(table_name)))
    ELSE IF branch = "update"
    THEN UpdateResult(table_name, recs, conds, count,
                      _update_row(row, file.header, _get_table_schema(table_name)))
    ELSE ConflictResult(recs, conds, count,
             ConflictError(file.name, row_no, filter_fields,
                           conflict_filter_values(row, filter_fields), count))

Counted(file, table_name, recs, row, row_no, filter_fields, conds, count) ==
    Branch(file, table_name, recs, row, row_no, filter_fields, conds, count,
           match_branch(count))

Filtered(file, table_name, recs, row, row_no, filter_fields, conds) ==
    IF conds = <<>>
    THEN NoFilterResult(NoFilterError(file.name, row_no, filter_fields), recs)
    ELSE Counted(file, table_name, recs, row, row_no, filter_fields, conds,
                 DbCount(table_name, recs, conds))

UpdateRowResult(file, table_name, recs, row, index, csize, filter_fields) ==
    Filtered(file, table_name, recs, row,
             error_row(index \div csize, csize, index), filter_fields,
             where_conditions(row, filter_fields))

----------------------------------------------------------------------------
(* State. *)

VARIABLES
    dry_run,        \* the dry_run argument of process_csv_files
    csv_files,      \* the files os.listdir found, as indexes into Catalog
    file_i,         \* how many files the loop of process_csv_files has taken
    pc,             \* where process_csv_files is
    store,          \* table name -> the records of the table at db_path
    errors_json,    \* the errors.json document of the job folder
    failures,       \* store calls that have raised so far
    open_conns,     \* connections opened and not yet closed
    calls,          \* store calls issued for the current file, in order
    status,         \* what has become of the current file
    dtypes,         \* the dtype mapping the current file is read with
    df,             \* the data frame of the current append file
    idx,            \* rows of the current file that have been handled
    outcomes,       \* the outcome recorded for each handled row, in order
    total_processed,
    total_updated,
    total_appended,
    total_errors,
    source_db,      \* the baseline database at DATABASE_PATH
    db_path,        \* db_path of main: the snapshot copy, once it is made
    exit_code,      \* how the process has ended, if it has
    input,          \* the argument of a function called on its own
    output          \* what the successive calls of that function returned

vars == <<dry_run, csv_files, file_i, pc, store, errors_json, failures,
          open_conns, calls, status, dtypes, df, idx, outcomes,
          total_processed, total_updated, total_appended, total_errors,
          source_db, db_path, exit_code, input, output>>

mainVars == <<source_db, db_path, exit_code>>

pureVars == <<input, output>>

\* The file the loop is at, and the groups of its name.
CurFile == Catalog[csv_files[file_i]]

CurName == parse_csv_filename(CurFile.name)

CurTable == CurName.table_name

\* errors.json as found on disk.  A document the program wrote is
\* [exists, total_errors, errors]; the other contents a file can have carry a
\* json field instead of errors: text that is not JSON, a JSON array, an
\* object without an "errors" key, an object whose "errors" is not a list.
InvalidJsonFile == [exists |-> TRUE, json |-> "invalid"]

JsonArrayFile == [exists |-> TRUE, json |-> "array"]

ObjectWithoutErrors == [exists |-> TRUE, json |-> "object_without_errors"]

ObjectErrorsNotList == [exists |-> TRUE, json |-> "object_errors_not_list"]

EmptyLog == [exists |-> TRUE, total_errors |-> 0, errors |-> <<>>]

\* os.path.exists / json.load of log_error: a missing file and a file that
\* json.load cannot decode both give the empty document; whatever decodes is
\* taken as it is.
LoadLog(doc) ==
    IF doc.exists /\ doc # InvalidJsonFile THEN doc ELSE EmptyLog

\* error_log["errors"].append(error_data) raises on what has no such list.
AppendRaises(doc) == "json" \in DOMAIN LoadLog(doc)

\* log_error when nothing raises: load the document or start
\* {total_errors: 0, errors: []}, append, recompute total_errors, write back
\* (the timestamp is left out).
log_error(doc, error_data) ==
    LET error_log == LoadLog(doc)
        errors == Append(error_log.errors, error_data)
    IN [exists |-> TRUE, total_errors |-> Len(errors), errors |-> errors]

\* What is on disk after the write of log_error: the new document; the old
\* file when open(..., 'w') raises; a truncated file when json.dump raises
\* after the file was opened for writing.  Both exceptions are swallowed.
WriteBack(doc, written, write) ==
    IF write = "ok" THEN written
    ELSE IF write = "open_fails" THEN doc
    ELSE InvalidJsonFile

\* A store call as recorded in calls.
Call(op, row_no, pairs, conds, ok) ==
    [op |-> op, row |-> row_no, pairs |-> pairs, where |-> conds, ok |-> ok,
     result |-> 0]

\* The count query of a row and what fetchone()[0] gave.
CountCall(row_no, conds, ok, result) ==
    [op |-> "count", row |-> row_no, pairs |-> <<>>, where |-> conds, ok |-> ok,
     result |-> result]

\* duckdb.connect(db_path): the call names the database file it opens.
Connect(ok) == [path |-> db_path] @@ Call("connect", 0, <<>>, <<>>, ok)

DescribeCall(ok) == Call("describe", 0, <<>>, <<>>, ok)

\* A store call may raise while fewer than MaxStoreFailures have.
MayFail == failures < MaxStoreFailures

\* db_path = None of main, and the path of the copy in the job folder.
NoPath == "none"

SnapshotPath == "snapshot"

\* DATABASE_PATH of config.py, the baseline database; tax_database.duckdb is
\* no name a copy tax_db_<YYMMDD>.duckdb can have.
DATABASE_PATH == "source"

\* The baseline database: missing, or holding the records of table t.
SourceDatabases ==
    {[exists |-> FALSE, tables |-> [t \in DbTables |-> <<>>]]} \cup
    {[exists |-> TRUE,
      tables |-> [t \in DbTables |-> IF t = tbl_t THEN recs ELSE <<>>]] :
        recs \in InitialRecords}

\* The process starts in main(): store is the content of the copy in the job
\* folder, which does not exist yet.
Init ==
    /\ dry_run \in BOOLEAN
    /\ csv_files \in DistinctFolders
    /\ file_i = 0
    /\ pc = "main"
    /\ source_db \in SourceDatabases
    /\ db_path = NoPath
    /\ exit_code = "running"
    /\ input = <<>>
    /\ output = <<>>
    /\ store = [t \in DbTables |-> <<>>]
    /\ errors_json = [exists |-> FALSE, total_errors |-> 0, errors |-> <<>>]
    /\ failures = 0
    /\ open_conns = 0
    /\ calls = <<>>
    /\ status = "none"
    /\ dtypes = <<>>
    /\ df = <<>>
    /\ idx = 0
    /\ outcomes = <<>>
    /\ total_processed = 0
    /\ total_updated = 0
    /\ total_appended = 0
    /\ total_errors = 0

rowVars == <<idx, outcomes, total_processed, total_updated, total_appended,
             total_errors>>

\* A variant of AfterChecks that ignores the dry-run flag; C7 rejects it.
AfterChecks_IgnoresFlag(dry) ==
    [status |-> "validating", pc |-> "validate"]

\* What process_csv_files does with a file whose name and filter criteria are
\* in order: a dry run only prints what it would do (no validation, no
\* processing pass); a real run goes on to validate_csv_schema.
AfterChecks(dry) ==
    IF dry THEN [status |-> "dry_run", pc |-> "loop"]
    ELSE [status |-> "validating", pc |-> "validate"]

\* The loop of process_csv_files takes the next file: parse_csv_filename, the
\* filter-criteria check of update files, and the dry-run branch.
BeginFile ==
    /\ pc = "loop"
    /\ UNCHANGED <<mainVars, pureVars>>
    /\ file_i < Len(csv_files)
    /\ file_i' = file_i + 1
    /\ LET f == Catalog[csv_files[file_i + 1]]
           n == parse_csv_filename(f.name)
       IN IF ~n.ok
          THEN /\ errors_json' = log_error(errors_json,
                     [file |-> f.name, error |-> "Invalid filename format"])
               /\ status' = "skipped_name"
               /\ pc' = "loop"
          ELSE IF n.job_type = UPDATE /\ FilterFieldsOf(n.table_name) = <<>>
          THEN /\ errors_json' = log_error(errors_json,
                     [file |-> f.name,
                      error |-> "No filtering criteria found for table",
                      table |-> n.table_name])
               /\ status' = "skipped_criteria"
               /\ pc' = "loop"
          ELSE /\ errors_json' = errors_json
               /\ status' = AfterChecks(dry_run).status
               /\ pc' = AfterChecks(dry_run).pc
    /\ calls' = <<>>
    /\ dtypes' = <<>>
    /\ df' = <<>>
    /\ idx' = 0
    /\ outcomes' = <<>>
    /\ total_processed' = 0
    /\ total_updated' = 0
    /\ total_appended' = 0
    /\ total_errors' = 0
    /\ UNCHANGED <<dry_run, csv_files, store, failures, open_conns>>

\* validate_csv_schema, and the branch of process_csv_files on its result.
\* fail names the store call that raises, if one does.
ValidateSchema ==
    /\ pc = "validate"
    /\ UNCHANGED <<mainVars, pureVars>>
    /\ \E fail \in {"none", "connect", "describe"} :
        /\ fail # "none" => MayFail
        /\ failures' = IF fail = "none" THEN failures ELSE failures + 1
        /\ IF fail = "connect"
           THEN /\ calls' = calls \o <<Connect(FALSE)>>
                /\ errors_json' = log_error(errors_json,
                      [file |-> CurFile.name, error |-> "Schema validation error",
                       table |-> CurTable])
                /\ status' = "skipped_schema"
                /\ pc' = "loop"
           ELSE IF fail = "describe" \/ CurTable \notin DbTables
           THEN /\ calls' = calls \o <<Connect(TRUE), DescribeCall(FALSE),
                                       Call("close", 0, <<>>, <<>>, TRUE)>>
                /\ errors_json' = log_error(errors_json,
                      [file |-> CurFile.name, error |-> "Failed to get table schema",
                       table |-> CurTable])
                /\ status' = "skipped_schema"
                /\ pc' = "loop"
           ELSE LET db_field_names  == {Lower(c) : c \in DbColumns(CurTable)}
                    csv_field_names == {Strip(Lower(col)) : col \in Range(CurFile.header)}
                IN /\ calls' = calls \o <<Connect(TRUE), DescribeCall(TRUE),
                                          Call("close", 0, <<>>, <<>>, TRUE)>>
                   /\ IF ~(csv_field_names \subseteq db_field_names)
                      THEN /\ errors_json' = log_error(errors_json,
                                 [file |-> CurFile.name,
                                  error |-> "CSV schema validation failed",
                                  table |-> CurTable,
                                  missing_fields |-> csv_field_names \ db_field_names,
                                  csv_fields |-> csv_field_names,
                                  table_fields |-> db_field_names])
                           /\ status' = "skipped_schema"
                           /\ pc' = "loop"
                      ELSE /\ errors_json' = errors_json
                           /\ status' = "processing"
                           /\ pc' = IF CurName.job_type = APPEND
                                    THEN "append_open" ELSE "update_open"
    /\ UNCHANGED <<dry_run, csv_files, file_i, store, open_conns, dtypes, df>>
    /\ UNCHANGED rowVars

\* dtype=str for every column.
AllStr(header) == [col \in Range(header) |-> "str"]

\* The file-level error record of a processing pass.
FileError(message) ==
    [file |-> CurFile.name, error |-> message, table |-> CurTable]

Close == Call("close", 0, <<>>, <<>>, TRUE)

\* Variant: the except without the finally, the connection stays open.
AbortFile_LeavesOpen(message) ==
    /\ errors_json' = log_error(errors_json, FileError(message))
    /\ store' = store
    /\ open_conns' = open_conns
    /\ status' = "aborted"
    /\ pc' = "loop"

\* Variant: the except puts the table back to its baseline content.
AbortFile_RollsBack(message) ==
    /\ errors_json' = log_error(errors_json, FileError(message))
    /\ store' = [store EXCEPT ![CurTable] = source_db.tables[CurTable]]
    /\ open_conns' = open_conns - 1
    /\ status' = "aborted"
    /\ pc' = "loop"

\* The except / finally of process_append_job and process_update_job: one
\* file-level record is logged, the processing connection is closed and
\* process_csv_files goes on with the next file.  No transaction was begun
\* and nothing is undone: the store stays as the statements left it.
AbortFile(message) ==
    /\ errors_json' = log_error(errors_json, FileError(message))
    /\ store' = store
    /\ open_conns' = open_conns - 1
    /\ status' = "aborted"
    /\ pc' = "loop"

\* duckdb.connect at the top of process_append_job / process_update_job
\* raises: it is outside the try, so the exception leaves process_csv_files.
ConnectRaises ==
    /\ calls' = calls \o <<Connect(FALSE)>>
    /\ status' = "crashed"
    /\ pc' = "raised"
    /\ UNCHANGED <<errors_json, open_conns>>

\* The calls of one schema lookup (_get_table_schema) on its own connection.
SchemaLookup(ok) == <<Connect(TRUE), DescribeCall(ok), Close>>

\* process_append_job up to its row loop: connect, read the CSV under the
\* schema-based dtypes (falling back to text), read the table schema.
OpenAppend ==
    /\ pc = "append_open"
    /\ UNCHANGED <<mainVars, pureVars>>
    /\ \E fail \in SUBSET {"connect", "dtypes", "schema"} :
        /\ Cardinality(fail) <= MaxStoreFailures - failures
        /\ "connect" \in fail => fail = {"connect"}
        /\ failures' = failures + Cardinality(fail)
        /\ IF "connect" \in fail
           THEN ConnectRaises /\ UNCHANGED <<dtypes, df>>
           ELSE LET dt  == _get_csv_dtypes_from_schema(CurFile.header, CurTable,
                                                       "dtypes" \notin fail)
                    bad == CoercionFails(CurFile, dt, 1, Len(CurFile.rows))
                    use == IF bad THEN AllStr(CurFile.header) ELSE dt
                    log == IF bad
                           THEN log_error(errors_json, FileError(
                                  "CSV type conversion failed, reading as strings"))
                           ELSE errors_json
                IN /\ dtypes' = use
                   /\ calls' = calls \o <<Connect(TRUE)>>
                                     \o SchemaLookup("dtypes" \notin fail)
                                     \o SchemaLookup("schema" \notin fail)
                                     \o (IF "schema" \in fail THEN <<Close>> ELSE <<>>)
                   /\ IF "schema" \in fail
                      THEN /\ errors_json' = log_error(log,
                                  FileError("Append operation failed"))
                           /\ open_conns' = open_conns
                           /\ status' = "aborted"
                           /\ pc' = "loop"
                           /\ df' = <<>>
                      ELSE /\ errors_json' = log
                           /\ open_conns' = open_conns + 1
                           /\ status' = "processing"
                           /\ pc' = "append_rows"
                           /\ df' = ParseRows(CurFile, use)
    /\ UNCHANGED <<dry_run, csv_files, file_i, store>>
    /\ UNCHANGED rowVars

\* One turn of "for index, row in df.iterrows()" of process_append_job.
AppendRow ==
    /\ pc = "append_rows"
    /\ UNCHANGED <<mainVars, pureVars>>
    /\ idx < Len(df)
    /\ \E pairs \in {_insert_row(df[idx + 1], CurFile.header, _get_table_schema(CurTable))} :
       LET cols == [i \in DOMAIN pairs |-> pairs[i][1]]
       IN \E fail \in BOOLEAN :
            /\ fail => MayFail /\ pairs # <<>>
            /\ failures' = IF fail THEN failures + 1 ELSE failures
            /\ IF pairs = <<>>
               THEN /\ idx' = idx + 1
                    /\ outcomes' = Append(outcomes, "NoData")
                    /\ UNCHANGED <<store, calls, errors_json, open_conns, status, pc>>
               ELSE IF fail \/ ~Binds(CurTable, cols)
               THEN /\ calls' = calls \o <<Call("insert", idx + 1, pairs, <<>>, FALSE), Close>>
                    /\ AbortFile("Append operation failed")
                    /\ UNCHANGED <<idx, outcomes>>
               ELSE /\ calls' = Append(calls, Call("insert", idx + 1, pairs, <<>>, TRUE))
                    /\ store' = [store EXCEPT ![CurTable] = DbInsert(CurTable, @, pairs)]
                    /\ idx' = idx + 1
                    /\ outcomes' = Append(outcomes, "Inserted")
                    /\ UNCHANGED <<errors_json, open_conns, status, pc>>
    /\ UNCHANGED <<dry_run, csv_files, file_i, dtypes, df>>
    /\ UNCHANGED <<total_processed, total_updated, total_appended, total_errors>>

\* The row loop of process_append_job is over: SUCCESS is printed and the
\* finally clause closes the connection.
FinishAppend ==
    /\ pc = "append_rows"
    /\ UNCHANGED <<mainVars, pureVars>>
    /\ idx = Len(df)
    /\ calls' = Append(calls, Close)
    /\ open_conns' = open_conns - 1
    /\ status' = "completed"
    /\ pc' = "loop"
    /\ UNCHANGED <<dry_run, csv_files, file_i, store, errors_json, failures, dtypes, df>>
    /\ UNCHANGED rowVars

\* A variant of Tally that does not count a conflict as an error; C1 rejects it.
Tally_ConflictUncounted(branch, counters) ==
    [processed |-> counters.processed + 1,
     updated   |-> counters.updated + (IF branch = "update" THEN 1 ELSE 0),
     appended  |-> counters.appended + (IF branch = "insert" THEN 1 ELSE 0),
     errors    |-> counters.errors + (IF branch = "nofilter" THEN 1 ELSE 0)]

\* The counters of process_update_job after a row that took the given branch:
\* total_processed, total_updated, total_appended, total_errors.
Tally(branch, counters) ==
    [processed |-> counters.processed + 1,
     updated   |-> counters.updated + (IF branch = "update" THEN 1 ELSE 0),
     appended  |-> counters.appended + (IF branch = "insert" THEN 1 ELSE 0),
     errors    |-> counters.errors +
                   (IF branch \in {"nofilter", "conflict"} THEN 1 ELSE 0)]

Counters ==
    [processed |-> total_processed, updated |-> total_updated,
     appended |-> total_appended, errors |-> total_errors]

SetCounters(c) ==
    /\ total_processed' = c.processed
    /\ total_updated' = c.updated
    /\ total_appended' = c.appended
    /\ total_errors' = c.errors

\* The outcome of a row by the branch it took.
Outcome(branch) ==
    CASE branch = "insert" -> "Inserted"
      [] branch = "update" -> "Updated"
      [] branch = "conflict" -> "Conflict"
      [] branch = "nofilter" -> "Skipped"

\* process_update_job up to its chunk loop: connect, read the table schema,
\* derive the dtypes and open the chunked reader (which reads no row yet).
OpenUpdate ==
    /\ pc = "update_open"
    /\ UNCHANGED <<mainVars, pureVars>>
    /\ \E fail \in {"none", "connect", "schema", "dtypes"} :
        /\ fail # "none" => MayFail
        /\ failures' = IF fail = "none" THEN failures ELSE failures + 1
        /\ IF fail = "connect"
           THEN ConnectRaises /\ UNCHANGED dtypes
           ELSE IF fail = "schema"
           THEN /\ calls' = calls \o <<Connect(TRUE)>> \o SchemaLookup(FALSE) \o <<Close>>
                /\ errors_json' = log_error(errors_json, FileError("Processing failed"))
                /\ open_conns' = open_conns
                /\ status' = "aborted"
                /\ pc' = "loop"
                /\ UNCHANGED dtypes
           ELSE /\ calls' = calls \o <<Connect(TRUE)>> \o SchemaLookup(TRUE)
                                  \o SchemaLookup(fail # "dtypes")
                /\ dtypes' = _get_csv_dtypes_from_schema(CurFile.header, CurTable,
                                                         fail # "dtypes")
                /\ open_conns' = open_conns + 1
                /\ status' = "processing"
                /\ pc' = "update_rows"
                /\ UNCHANGED errors_json
    /\ UNCHANGED <<dry_run, csv_files, file_i, store, df>>
    /\ UNCHANGED rowVars

\* One turn of the row loop of process_update_job (reading the next chunk
\* first when the row is the first of a chunk): the filter predicate, the
\* count query and the insert, update or conflict it leads to.
\* Variant: a row-level error ends the pass over the file.
RowError_EndsFile(res) ==
    /\ errors_json' = log_error(errors_json, res.errs[1])
    /\ SetCounters(Tally(res.branch, Counters))
    /\ outcomes' = Append(outcomes, Outcome(res.branch))
    /\ idx' = Len(CurFile.rows)
    /\ UNCHANGED <<store, open_conns, status, pc>>

\* The two row-level errors of process_update_job (no usable filter value,
\* several matches): the record is logged, total_errors counts the row and
\* the loop goes on with the next row.
RowError(res) ==
    /\ errors_json' = log_error(errors_json, res.errs[1])
    /\ SetCounters(Tally(res.branch, Counters))
    /\ outcomes' = Append(outcomes, Outcome(res.branch))
    /\ idx' = idx + 1
    /\ UNCHANGED <<store, open_conns, status, pc>>

UpdateRow ==
    /\ pc = "update_rows"
    /\ UNCHANGED <<mainVars, pureVars>>
    /\ idx < Len(CurFile.rows)
    /\ \E chunk_bad \in {idx % chunk_size = 0
                           /\ CoercionFails(CurFile, dtypes, idx + 1, idx + chunk_size)},
          res \in {UpdateRowResult(CurFile, CurTable, store[CurTable],
                                   ParseRows(CurFile, dtypes)[idx + 1], idx,
                                   chunk_size, FilterFieldsOf(CurTable))} :
       LET fields == [i \in DOMAIN res.conds |-> res.conds[i][1]]
           cols   == [i \in DOMAIN res.pairs |-> res.pairs[i][1]]
           count_call(ok) == CountCall(idx + 1, res.conds, ok,
                                       IF ok THEN res.count ELSE 0)
           write_call(ok) ==
               [params |-> res.params] @@
               Call(res.branch, idx + 1, res.pairs,
                    IF res.branch = "update" THEN res.conds ELSE <<>>, ok)
       IN \E fail \in {"none", "count", "write"} :
            /\ fail # "none" => MayFail /\ ~chunk_bad
            /\ fail = "count" => res.branch # "nofilter"
            /\ fail = "write" => res.branch \in {"insert", "update"} /\ res.pairs # <<>>
            /\ failures' = IF fail = "none" THEN failures ELSE failures + 1
            /\ IF chunk_bad
               THEN /\ calls' = Append(calls, Close)
                    /\ AbortFile("Processing failed")
                    /\ UNCHANGED <<idx, outcomes, total_processed, total_updated,
                                   total_appended, total_errors>>
               ELSE IF res.branch = "nofilter"
               THEN /\ RowError(res)
                    /\ UNCHANGED calls
               ELSE IF fail = "count" \/ ~Binds(CurTable, fields)
               THEN /\ calls' = calls \o <<count_call(FALSE), Close>>
                    /\ AbortFile("Processing failed")
                    /\ total_processed' = total_processed + 1
                    /\ UNCHANGED <<idx, outcomes, total_updated,
                                   total_appended, total_errors>>
               ELSE IF res.branch = "conflict"
               THEN /\ calls' = Append(calls, count_call(TRUE))
                    /\ RowError(res)
               ELSE IF res.pairs # <<>> /\ (fail = "write" \/ ~Binds(CurTable, cols))
               THEN /\ calls' = calls \o <<count_call(TRUE), write_call(FALSE), Close>>
                    /\ AbortFile("Processing failed")
                    /\ total_processed' = total_processed + 1
                    /\ UNCHANGED <<idx, outcomes, total_updated,
                                   total_appended, total_errors>>
               ELSE /\ calls' = calls \o <<count_call(TRUE)>>
                                      \o (IF res.pairs # <<>> THEN <<write_call(TRUE)>>
                                          ELSE <<>>)
                    /\ store' = [store EXCEPT ![CurTable] = res.recs]
                    /\ SetCounters(Tally(res.branch, Counters))
                    /\ outcomes' = Append(outcomes, Outcome(res.branch))
                    /\ idx' = idx + 1
                    /\ UNCHANGED <<errors_json, open_conns, status, pc>>
    /\ UNCHANGED <<dry_run, csv_files, file_i, dtypes, df>>

\* The chunk loop of process_update_job is over: SUCCESS and the counters are
\* printed and the finally clause closes the connection.
FinishUpdate ==
    /\ pc = "update_rows"
    /\ UNCHANGED <<mainVars, pureVars>>
    /\ idx = Len(CurFile.rows)
    /\ calls' = Append(calls, Close)
    /\ open_conns' = open_conns - 1
    /\ status' = "completed"
    /\ pc' = "loop"
    /\ UNCHANGED <<dry_run, csv_files, file_i, store, errors_json, failures, dtypes, df>>
    /\ UNCHANGED rowVars

\* The loop of process_csv_files has taken every file (or found none).
Return ==
    /\ pc = "loop"
    /\ UNCHANGED <<mainVars, pureVars>>
    /\ file_i = Len(csv_files)
    /\ pc' = "done"
    /\ UNCHANGED <<dry_run, csv_files, file_i, store, errors_json, failures,
                   open_conns, calls, status, dtypes, df>>
    /\ UNCHANGED rowVars

\* What main() leaves alone before and after process_csv_files.
loopVars == <<csv_files, file_i, errors_json, failures, open_conns, calls, status,
              dtypes, df, idx, outcomes, total_processed, total_updated,
              total_appended, total_errors>>

\* sys.exit(1)
Exit1 ==
    /\ exit_code' = "exit_1"
    /\ pc' = "exited"

\* TableUpdater(): load_filtering_criteria reads filtering_criteria.json and
\* exits with status 1 when the file is missing or is not JSON.
Construct ==
    /\ pc = "main"
    /\ \E criteria \in {"loaded", "missing", "invalid"} :
          IF criteria = "loaded"
          THEN pc' = "find_folder" /\ exit_code' = exit_code
          ELSE Exit1
    /\ UNCHANGED <<dry_run, store, source_db, db_path>>
    /\ UNCHANGED <<loopVars, pureVars>>

\* main() up to the timestamp: the job folder is the one given or the latest
\* YYMMDD_update folder; it must exist and be named YYMMDD_update.
LocateFolder ==
    /\ pc = "find_folder"
    /\ \E folder \in {"found", "none_found", "not_found", "bad_name"} :
          IF folder = "found"
          THEN pc' = "snapshot" /\ exit_code' = exit_code
          ELSE Exit1
    /\ UNCHANGED <<dry_run, store, source_db, db_path>>
    /\ UNCHANGED <<loopVars, pureVars>>

\* Variant: a missing source is taken for an empty database.
duplicate_database_Lenient(source, copied) ==
    IF ~copied THEN [ok |-> FALSE, error |-> "copy failed"]
    ELSE [ok |-> TRUE, path |-> SnapshotPath, tables |-> source.tables]

\* Variant: no copy is made and the path of the source is returned.
duplicate_database_InPlace(source, copied) ==
    IF ~source.exists THEN [ok |-> FALSE, error |-> "Source database not found"]
    ELSE [ok |-> TRUE, path |-> DATABASE_PATH, tables |-> source.tables]

\* duplicate_database: FileNotFoundError when the source does not exist,
\* else the copy (replacing an older one) holds what the source holds and
\* its path is returned; copied is FALSE when shutil.copy2 raises.
duplicate_database(source, copied) ==
    IF ~source.exists THEN [ok |-> FALSE, error |-> "Source database not found"]
    ELSE IF ~copied THEN [ok |-> FALSE, error |-> "copy failed"]
    ELSE [ok |-> TRUE, path |-> SnapshotPath, tables |-> source.tables]

\* main(): the copy is made in a real run and only announced in a dry run;
\* then process_csv_files is entered.
Snapshot ==
    /\ pc = "snapshot"
    /\ IF dry_run
       THEN /\ pc' = "loop"
            /\ UNCHANGED <<store, db_path, exit_code>>
       ELSE \E copied \in BOOLEAN :
            \E r \in {duplicate_database(source_db, copied)} :
              IF r.ok
              THEN /\ db_path' = r.path
                   /\ store' = r.tables
                   /\ pc' = "loop"
                   /\ exit_code' = exit_code
              ELSE Exit1 /\ UNCHANGED <<store, db_path>>
    /\ UNCHANGED <<dry_run, source_db>>
    /\ UNCHANGED <<loopVars, pureVars>>

\* process_csv_files returned: main() prints the summary and ends.
Finish ==
    /\ pc = "done"
    /\ exit_code' = "exit_0"
    /\ pc' = "exited"
    /\ UNCHANGED <<dry_run, store, source_db, db_path>>
    /\ UNCHANGED <<loopVars, pureVars>>

\* "except Exception" of main(): whatever process_csv_files let through ends
\* the process with status 1.
MainExcept ==
    /\ pc = "raised"
    /\ Exit1
    /\ UNCHANGED <<dry_run, store, source_db, db_path>>
    /\ UNCHANGED <<loopVars, pureVars>>

Next ==
    \/ Construct
    \/ LocateFolder
    \/ Snapshot
    \/ Finish
    \/ MainExcept
    \/ BeginFile
    \/ ValidateSchema
    \/ OpenAppend
    \/ AppendRow
    \/ FinishAppend
    \/ OpenUpdate
    \/ UpdateRow
    \/ FinishUpdate
    \/ Return

Spec == Init /\ [][Next]_vars

----------------------------------------------------------------------------
(* The chunk loop of process_update_job as a function of the chunk size:   *)
(* the rows of a file handled in order, no store call raising.             *)

RunStep(acc, r) ==
    [recs |-> r.recs, errs |-> acc.errs \o r.errs,
     outcomes |-> Append(acc.outcomes, Outcome(r.branch))]

RECURSIVE RunRows(_, _, _, _, _, _, _)
RunRows(file, table_name, rows, index, csize, filter_fields, acc) ==
    IF index >= Len(rows) THEN acc
    ELSE RunRows(file, table_name, rows, index + 1, csize, filter_fields,
                 RunStep(acc, UpdateRowResult(file, table_name, acc.recs,
                                              rows[index + 1], index, csize,
                                              filter_fields)))

RunFile(file, table_name, recs, dt, csize) ==
    RunRows(file, table_name, ParseRows(file, dt), 0, csize,
            FilterFieldsOf(table_name),
            [recs |-> recs, errs |-> <<>>, outcomes |-> <<>>])

----------------------------------------------------------------------------
(* log_error on its own: any sequence of calls on one job folder, whatever *)
(* errors.json holds at the start, the write-back failing or not.          *)

\* error_data of the calls.
LogRecords ==
    { [file |-> f_badname.name, error |-> "Invalid filename format"],
      [file |-> f_update_w.name, error |-> "No filtering criteria found for table",
       table |-> tbl_w] }

\* errors.json at the start: absent, left by an earlier run (one record),
\* with a stale total_errors, or one of the other contents.
InitialLogs ==
    { [exists |-> FALSE, total_errors |-> 0, errors |-> <<>>],
      [exists |-> TRUE, total_errors |-> 1,
       errors |-> << [file |-> f_badname.name, error |-> "Invalid filename format"] >>],
      [exists |-> TRUE, total_errors |-> 0,
       errors |-> << [file |-> f_badname.name, error |-> "Invalid filename format"] >>],
      InvalidJsonFile, JsonArrayFile, ObjectWithoutErrors, ObjectErrorsNotList }

LogInit ==
    /\ errors_json \in InitialLogs
    /\ pc = "log"
    /\ source_db = [exists |-> FALSE, tables |-> [t \in DbTables |-> <<>>]]
    /\ db_path = NoPath
    /\ exit_code = "running"
    /\ input = <<>>
    /\ output = <<>>
    /\ dry_run = FALSE
    /\ csv_files = <<>>
    /\ file_i = 0
    /\ store = [t \in DbTables |-> <<>>]
    /\ failures = 0
    /\ open_conns = 0
    /\ calls = <<>>
    /\ status = "none"
    /\ dtypes = <<>>
    /\ df = <<>>
    /\ idx = 0
    /\ outcomes = <<>>
    /\ total_processed = 0
    /\ total_updated = 0
    /\ total_appended = 0
    /\ total_errors = 0

\* One call of log_error(error_data, job_folder).  calls keeps the call with
\* the file it found, status whether it returned or raised, failures the
\* writes that failed.
LogError ==
    /\ pc = "log"
    /\ UNCHANGED <<mainVars, pureVars>>
    /\ Len(calls) < MaxLogCalls
    /\ \E error_data \in LogRecords, write \in {"ok", "open_fails", "dump_fails"} :
        /\ write # "ok" => failures < MaxWriteFailures /\ ~AppendRaises(errors_json)
        /\ failures' = IF write = "ok" THEN failures ELSE failures + 1
        /\ calls' = Append(calls, [op |-> "log_error", error_data |-> error_data,
                                   before |-> errors_json, write |-> write])
        /\ IF AppendRaises(errors_json)
           THEN /\ errors_json' = errors_json
                /\ status' = "raised"
                /\ outcomes' = Append(outcomes, "raised")
           ELSE /\ errors_json' = WriteBack(errors_json,
                                            log_error(errors_json, error_data), write)
                /\ status' = "returned"
                /\ outcomes' = Append(outcomes, "returned")
    /\ UNCHANGED <<dry_run, csv_files, file_i, pc, store, open_conns, dtypes, df, idx,
                   total_processed, total_updated, total_appended, total_errors>>

LogNext == LogError

LogSpec == LogInit /\ [][LogNext]_vars

----------------------------------------------------------------------------
(* _convert_date_value and parse_csv_filename on their own: the argument is *)
(* drawn from a set of texts, the function is applied to it; the date      *)
(* conversion is applied again to what it returned.                        *)

\* No batch is running: every variable of the batch at its value before main().
NoBatch ==
    /\ errors_json = [exists |-> FALSE, total_errors |-> 0, errors |-> <<>>]
    /\ source_db = [exists |-> FALSE, tables |-> [t \in DbTables |-> <<>>]]
    /\ db_path = NoPath
    /\ exit_code = "running"
    /\ dry_run = FALSE
    /\ csv_files = <<>>
    /\ file_i = 0
    /\ store = [t \in DbTables |-> <<>>]
    /\ failures = 0
    /\ open_conns = 0
    /\ calls = <<>>
    /\ status = "none"
    /\ dtypes = <<>>
    /\ df = <<>>
    /\ idx = 0
    /\ outcomes = <<>>
    /\ total_processed = 0
    /\ total_updated = 0
    /\ total_appended = 0
    /\ total_errors = 0

batchVars == <<dry_run, csv_files, file_i, store, errors_json, failures, open_conns,
               calls, status, dtypes, df, idx, outcomes, total_processed,
               total_updated, total_appended, total_errors, mainVars>>

\* Cell texts: three parts joined by two separators, with or without a
\* space in front and behind; a missing value; blank text.
DateParts ==
    { <<"2">>, <<"0", "2">>, <<"1", "3">>, <<"2", "9">>, <<"2", "0", "2", "4">>,
      <<"2", "0", "2", "3">>, <<"0", "0", "0", "0">>, <<"x">>, <<>> }

DatePads == { <<>>, <<" ">> }

DateInputs ==
    { l \o a \o <<s1>> \o b \o <<s2>> \o c \o r :
        l \in DatePads, a \in DateParts, s1 \in {"/", "-"}, b \in DateParts,
        s2 \in {"/", "-"}, c \in DateParts, r \in DatePads }
    \cup { NA, <<>>, <<" ">>, <<" ", " ">>, <<"x">>, <<" ", "x">>, <<"x", " ">> }

DateInit ==
    /\ NoBatch
    /\ pc = "convert"
    /\ input \in DateInputs
    /\ output = <<>>

\* One call of _convert_date_value: on the input first, then on what the
\* call before returned.
ConvertDate ==
    /\ pc = "convert"
    /\ Len(output) < MaxApplications
    /\ output' = Append(output, _convert_date_value(IF output = <<>> THEN input
                                                    ELSE output[Len(output)]))
    /\ UNCHANGED <<pc, input, batchVars>>

DateNext == ConvertDate

DateSpec == DateInit /\ [][DateNext]_vars

\* File names: a table part, a keyword part, a number part and an ending.
NameTables ==
    { <<"t">>,
      <<"a", "_", "b">>,
      <<"t", "_", "a", "p", "p", "e", "n", "d">>,
      <<"t", "_", "u", "p", "d", "a", "t", "e", "_", "1">>,
      <<>>,
      <<"t", "\n">>,
      <<" ", "t">> }

NameKeywords ==
    { <<"_", "a", "p", "p", "e", "n", "d", "_">>,
      <<"_", "u", "p", "d", "a", "t", "e", "_">>,
      <<"_", "d", "e", "l", "e", "t", "e", "_">>,
      <<"a", "p", "p", "e", "n", "d", "_">>,
      <<"_", "a", "p", "p", "e", "n", "d">>,
      <<"_", "A", "p", "p", "e", "n", "d", "_">> }

NameNumbers ==
    { <<"1">>,
      <<"0", "7">>,
      <<>>,
      <<"1", "a">>,
      <<"a", "1">> }

NameEndings ==
    { <<".", "c", "s", "v">>,
      <<".", "c", "s", "v", "\n">>,
      <<".", "t", "x", "t">>,
      <<".", "C", "S", "V">>,
      <<"c", "s", "v">>,
      <<".", "c", "s", "v", " ">> }

NameInputs ==
    { t \o k \o d \o e :
        t \in NameTables, k \in NameKeywords, d \in NameNumbers, e \in NameEndings }

NameInit ==
    /\ NoBatch
    /\ pc = "parse"
    /\ input \in NameInputs
    /\ output = <<>>

\* One call of parse_csv_filename(filename).
ParseName ==
    /\ pc = "parse"
    /\ output = <<>>
    /\ output' = <<parse_csv_filename(input)>>
    /\ UNCHANGED <<pc, input, batchVars>>

NameNext == ParseName

NameSpec == NameInit /\ [][NameNext]_vars

----------------------------------------------------------------------------
(* Properties. *)

\* The loop is at an update file / an append file.
AtUpdateFile == file_i > 0 /\ CurName.ok /\ CurName.job_type = UPDATE

AtAppendFile == file_i > 0 /\ CurName.ok /\ CurName.job_type = APPEND

\* The store calls a step adds to calls.
NewCalls == SubSeq(calls', Len(calls) + 1, Len(calls'))

\* The error records a step adds to errors.json.
NewErrors ==
    SubSeq(errors_json'.errors, Len(errors_json.errors) + 1, Len(errors_json'.errors))

\* A step of the row loop of process_update_job that handles the next row
\* (the chunk read did not raise).
RowHandled ==
    /\ pc = "update_rows"
    /\ idx < Len(CurFile.rows)
    /\ NewCalls # <<Close>>

\* The row that step handles.
NextRow == ParseRows(CurFile, dtypes)[idx + 1]

\* What the count query of that step returned; -1 when the step has none.
CountReturned ==
    IF /\ RowHandled
       /\ NewCalls # <<>>
       /\ NewCalls[1].op = "count" /\ NewCalls[1].ok
    THEN NewCalls[1].result
    ELSE -1

CountOf(S) == Cardinality(S)

\* Error records of the current file with the given message.
FileErrors(message) ==
    {i \in DOMAIN errors_json.errors :
        /\ errors_json.errors[i].file = CurFile.name
        /\ errors_json.errors[i].error = message}

RowsWith(outcome) == {r \in DOMAIN outcomes : outcomes[r] = outcome}

WriteCalls(r) == {i \in DOMAIN calls : calls[i].row = r /\ calls[i].op \in {"insert", "update"}}

\* Every row of the current update file has exactly one of the four outcomes
\* and the counters add up to the number of rows of the file.
RowsAccounted ==
    LET n == Len(CurFile.rows)
        conflicts == CountOf(FileErrors("Multiple matching records found"))
        nofilter  == CountOf(FileErrors("No valid filter conditions found in row"))
    IN /\ Len(outcomes) = n
       /\ \A r \in 1..n :
            /\ outcomes[r] \in {"Inserted", "Updated", "Conflict", "Skipped"}
            /\ CountOf(WriteCalls(r)) = IF outcomes[r] \in {"Inserted", "Updated"} THEN 1 ELSE 0
            /\ \A i \in WriteCalls(r) :
                  calls[i].op = IF outcomes[r] = "Inserted" THEN "insert" ELSE "update"
       /\ total_appended = CountOf(RowsWith("Inserted"))
       /\ total_updated = CountOf(RowsWith("Updated"))
       /\ conflicts = CountOf(RowsWith("Conflict"))
       /\ nofilter = CountOf(RowsWith("Skipped"))
       /\ total_errors = conflicts + nofilter
       /\ total_processed = n
       /\ total_appended + total_updated + conflicts + nofilter = n

\* C1 as stated: for every update file process_update_job has processed, each
\* row has exactly one outcome among Inserted, Updated, Conflict and
\* Skipped(NoFilterCondition), and the four counts add up to the number of rows.
C1_EveryUpdateFileAccounted ==
    (AtUpdateFile /\ status \in {"completed", "aborted", "crashed"}) => RowsAccounted

\* C1 amended: for every update file whose pass process_update_job completes
\* (no exception aborts it), each row has exactly one outcome among Inserted,
\* Updated, Conflict and Skipped(NoFilterCondition), and the four counts add
\* up to the number of rows of the file.
C1_CompletedUpdateFileAccounted ==
    (AtUpdateFile /\ status = "completed") => RowsAccounted

C1_Witness ==
    /\ AtUpdateFile /\ status = "completed"
    /\ {"Inserted", "Updated", "Conflict", "Skipped"} \subseteq Range(outcomes)

\* C2: a row whose count query returns 1 issues exactly one UPDATE, with the
\* predicate that was counted, and no INSERT; the table keeps its number of
\* records, the records the predicate does not match are left as they are,
\* and when the UPDATE succeeds the row is Updated and the matched record
\* carries the SET values.
C2_SingleMatchUpdatedInPlace ==
    [][ CountReturned = 1 =>
          LET before == store[CurTable]
              after  == store'[CurTable]
              w      == NewCalls[1].where
          IN /\ Len(NewCalls) >= 2
             /\ NewCalls[2].op = "update"
             /\ NewCalls[2].where = w
             /\ NewCalls[2].row = idx + 1
             /\ \A i \in DOMAIN NewCalls :
                   /\ NewCalls[i].op # "insert"
                   /\ NewCalls[i].op = "update" => i = 2
             /\ CountOf({i \in DOMAIN before : RecordMatches(CurTable, before[i], w)}) = 1
             /\ Len(after) = Len(before)
             /\ \A i \in DOMAIN before :
                   ~RecordMatches(CurTable, before[i], w) => after[i] = before[i]
             /\ \A t \in DbTables \ {CurTable} : store'[t] = store[t]
             /\ IF NewCalls[2].ok
                THEN /\ outcomes' = Append(outcomes, "Updated")
                     /\ \A i \in DOMAIN before :
                          RecordMatches(CurTable, before[i], w) =>
                            \A j \in DOMAIN NewCalls[2].pairs :
                               after[i][ResolveColumn(CurTable, NewCalls[2].pairs[j][1])]
                                  = NewCalls[2].pairs[j][2]
                ELSE after = before /\ outcomes' = outcomes
      ]_vars

C2_Witness ==
    /\ AtUpdateFile
    /\ \E i \in DOMAIN calls :
         /\ calls[i].op = "update" /\ calls[i].ok
         /\ \E j \in DOMAIN store[CurTable] :
               ~RecordMatches(CurTable, store[CurTable][j], calls[i].where)

\* C3: a row whose count query returns 2 or more issues no INSERT and no
\* UPDATE, leaves the store as it is, and appends exactly one error record
\* whose match_count is the count and whose filter_values are the field/value
\* pairs of the predicate.
C3_MultipleMatchIsConflict ==
    [][ CountReturned >= 2 =>
          /\ Len(NewCalls) = 1
          /\ store' = store
          /\ Len(NewErrors) = 1
          /\ NewErrors[1].file = CurFile.name
          /\ NewErrors[1].error = "Multiple matching records found"
          /\ NewErrors[1].match_count = NewCalls[1].result
          /\ NewErrors[1].match_count =
                CountOf({i \in DOMAIN store[CurTable] :
                           RecordMatches(CurTable, store[CurTable][i], NewCalls[1].where)})
          /\ {<<f, NewErrors[1].filter_values[f]>> : f \in DOMAIN NewErrors[1].filter_values}
                = Range(NewCalls[1].where)
          /\ outcomes' = Append(outcomes, "Conflict")
      ]_vars

C3_Witness ==
    /\ AtUpdateFile
    /\ "Conflict" \in Range(outcomes)
    /\ \E i \in FileErrors("Multiple matching records found") :
          errors_json.errors[i].match_count = 2

\* C4: a row whose count query returns 0 issues exactly one INSERT and no
\* UPDATE; the INSERT is the statement _insert_row builds for the row, the
\* same one AppendRow issues for a row of an append file, and when it
\* succeeds the row is Inserted and the table has that one record more.
C4_ZeroMatchInserted ==
    [][ CountReturned = 0 =>
          /\ Len(NewCalls) >= 2
          /\ NewCalls[2].op = "insert"
          /\ NewCalls[2].row = idx + 1
          /\ NewCalls[2].pairs =
                _insert_row(NextRow, CurFile.header, _get_table_schema(CurTable))
          /\ \A i \in DOMAIN NewCalls :
                /\ NewCalls[i].op # "update"
                /\ NewCalls[i].op = "insert" => i = 2
          /\ IF NewCalls[2].ok
             THEN /\ store'[CurTable] =
                        DbInsert(CurTable, store[CurTable], NewCalls[2].pairs)
                  /\ outcomes' = Append(outcomes, "Inserted")
                  /\ total_appended' = total_appended + 1
             ELSE store' = store /\ outcomes' = outcomes
      ]_vars

C4_Witness ==
    /\ AtUpdateFile
    /\ "Inserted" \in Range(outcomes)
    /\ \E i \in DOMAIN calls :
          /\ calls[i].op = "insert" /\ calls[i].ok
          /\ i > 1 /\ calls[i - 1].op = "count" /\ calls[i - 1].result = 0

\* The configured filter fields a row can be matched on: present in the row,
\* not missing, and not a blank string once trimmed.
UsableFields(row, filter_fields) ==
    SelectSeq(filter_fields,
              LAMBDA f : f \in DOMAIN row /\ row[f] # NA /\ Strip(row[f]) # <<>>)

\* C5: the predicate of a row's count query is made of exactly the configured
\* filter fields that are in the row, not missing and not blank; a row with no
\* such field issues no store call at all, leaves the store as it is, is
\* Skipped and logs one error record carrying the configured filter fields.
C5_PredicateFromUsableFields ==
    [][ RowHandled =>
          LET ff     == filtering_criteria[CurTable].filter_fields
              usable == UsableFields(NextRow, ff)
          IN IF usable = <<>>
             THEN /\ NewCalls = <<>>
                  /\ store' = store
                  /\ Len(NewErrors) = 1
                  /\ NewErrors[1].file = CurFile.name
                  /\ NewErrors[1].error = "No valid filter conditions found in row"
                  /\ NewErrors[1].filter_fields = ff
                  /\ outcomes' = Append(outcomes, "Skipped")
             ELSE /\ NewCalls # <<>>
                  /\ NewCalls[1].op = "count"
                  /\ NewCalls[1].where =
                        [i \in DOMAIN usable |-> <<usable[i], NextRow[usable[i]]>>]
      ]_vars

C5_Witness ==
    /\ AtUpdateFile
    /\ "Skipped" \in Range(outcomes)
    /\ FileErrors("No valid filter conditions found in row") # {}
    /\ \E i \in DOMAIN calls :
          /\ calls[i].op = "count"
          /\ calls[i].where # <<>>
          /\ Len(calls[i].where) < Len(FilterFieldsOf(CurTable))

\* The chunk sizes the claim names.
ChunkSizes == {1, 10, 1000}

\* C6 as stated: for an update file about to be processed (no cell of it
\* fails to parse), the per-row outcomes, the records of the table afterwards
\* and the error records, row numbers included, are the same for the chunk
\* sizes 1, 10 and 1000.
C6_ChunkSizeIrrelevant ==
    (/\ pc = "update_rows" /\ idx = 0
     /\ ~CoercionFails(CurFile, dtypes, 1, Len(CurFile.rows))) =>
        \A c1, c2 \in ChunkSizes :
            RunFile(CurFile, CurTable, store[CurTable], dtypes, c1)
              = RunFile(CurFile, CurTable, store[CurTable], dtypes, c2)

\* C7: in a dry run no step issues a store call of any kind (so no INSERT and
\* no UPDATE), none opens a connection, and the store is left as it is; the
\* loop never enters validation or a processing pass.
C7_DryRunTouchesNothing ==
    [][ dry_run =>
          /\ calls' = <<>>
          /\ open_conns' = 0
          /\ store' = store
          /\ failures' = failures
          /\ db_path' = NoPath
          /\ pc' \notin {"validate", "append_open", "append_rows", "update_open",
                         "update_rows", "raised"}
      ]_vars

C7_Witness ==
    /\ dry_run
    /\ pc = "done"
    /\ status = "dry_run"
    /\ \E i, j \in DOMAIN csv_files :
          /\ parse_csv_filename(Catalog[csv_files[i]].name).ok
          /\ parse_csv_filename(Catalog[csv_files[i]].name).job_type = APPEND
          /\ parse_csv_filename(Catalog[csv_files[j]].name).ok
          /\ parse_csv_filename(Catalog[csv_files[j]].name).job_type = UPDATE
          /\ FilterFieldsOf(parse_csv_filename(Catalog[csv_files[j]].name).table_name) # <<>>

\* The file-level records among the error records a step adds.
NewFileErrors ==
    {i \in DOMAIN NewErrors :
        NewErrors[i].error \in {"Append operation failed", "Processing failed"}}

\* C8 as stated: a store call that raises during a file's processing pass
\* (connect, schema read, count, INSERT or UPDATE) logs exactly one error
\* record for the file, ends the pass without handling another row and leaves
\* the loop ready to take the next file.
C8_StoreFailureAbortsFileOnly ==
    [][ (/\ pc \in {"append_open", "append_rows", "update_open", "update_rows"}
         /\ failures' > failures) =>
          /\ CountOf(NewFileErrors) = 1
          /\ status' = "aborted"
          /\ pc' = "loop"
          /\ idx' = idx
          /\ outcomes' = outcomes
          /\ store' = store
      ]_vars

\* C9 as stated: validation of a file whose header has a column that is not a
\* column of the table, compared without regard to case, skips the file with
\* one record listing the unknown columns, the CSV columns and the table
\* columns; a header naming only columns of the table passes.
C9_UnknownColumnSkipsFile ==
    [][ (/\ pc = "validate" /\ failures' = failures /\ CurTable \in DbTables) =>
          LET table_cols == {Lower(c) : c \in DbColumns(CurTable)}
              csv_cols   == {Lower(col) : col \in Range(CurFile.header)}
          IN IF csv_cols \subseteq table_cols
             THEN /\ status' = "processing"
                  /\ NewErrors = <<>>
             ELSE /\ status' = "skipped_schema"
                  /\ pc' = "loop"
                  /\ Len(NewErrors) = 1
                  /\ NewErrors[1].error = "CSV schema validation failed"
                  /\ NewErrors[1].missing_fields = csv_cols \ table_cols
                  /\ NewErrors[1].csv_fields = csv_cols
                  /\ NewErrors[1].table_fields = table_cols
      ]_vars

\* The table has no entry, or an empty filter_fields list, in the criteria.
NoCriteria(table_name) ==
    \/ table_name \notin DOMAIN filtering_criteria
    \/ filtering_criteria[table_name].filter_fields = <<>>

\* C10: when the loop takes an update file whose table has no entry or an
\* empty filter_fields list in the criteria, that step logs one error record
\* for the file, issues no store call, opens no connection, leaves the store
\* as it is and leaves the loop ready to take the next file.
C10_NoCriteriaSkipsUpdateFile ==
    [][ (/\ pc = "loop" /\ file_i < Len(csv_files)
         /\ parse_csv_filename(Catalog[csv_files[file_i + 1]].name).ok
         /\ parse_csv_filename(Catalog[csv_files[file_i + 1]].name).job_type = UPDATE
         /\ NoCriteria(parse_csv_filename(Catalog[csv_files[file_i + 1]].name).table_name)) =>
          /\ Len(NewErrors) = 1
          /\ NewErrors[1].file = Catalog[csv_files[file_i + 1]].name
          /\ NewErrors[1].error = "No filtering criteria found for table"
          /\ calls' = <<>>
          /\ open_conns' = open_conns
          /\ failures' = failures
          /\ store' = store
          /\ status' = "skipped_criteria"
          /\ pc' = "loop"
          /\ file_i' = file_i + 1
      ]_vars

C10_Witness ==
    /\ file_i = 2
    /\ status = "completed"
    /\ parse_csv_filename(Catalog[csv_files[1]].name).ok
    /\ parse_csv_filename(Catalog[csv_files[1]].name).job_type = UPDATE
    /\ NoCriteria(parse_csv_filename(Catalog[csv_files[1]].name).table_name)
    /\ Len(errors_json.errors) >= 1
    /\ errors_json.errors[1].error = "No filtering criteria found for table"

\* C11: when the loop takes a file whose name does not match
\* <table>_<append|update>_<digits>.csv, that step logs exactly one error
\* record for the file, issues no store call, opens no connection, leaves the
\* store as it is and leaves the loop ready to take the next file, in a dry
\* run as in a real run.
C11_BadNameSkipsFile ==
    [][ (/\ pc = "loop" /\ file_i < Len(csv_files)
         /\ csv_filename_match(Catalog[csv_files[file_i + 1]].name) = <<>>) =>
          /\ Len(NewErrors) = 1
          /\ NewErrors[1] = [file |-> Catalog[csv_files[file_i + 1]].name,
                             error |-> "Invalid filename format"]
          /\ errors_json'.total_errors = errors_json.total_errors + 1
          /\ calls' = <<>>
          /\ open_conns' = open_conns
          /\ failures' = failures
          /\ store' = store
          /\ status' = "skipped_name"
          /\ pc' = "loop"
          /\ file_i' = file_i + 1
      ]_vars

C11_Witness ==
    /\ dry_run
    /\ file_i = 2
    /\ status = "dry_run"
    /\ csv_filename_match(Catalog[csv_files[1]].name) = <<>>
    /\ Len(errors_json.errors) = 1
    /\ errors_json.errors[1].error = "Invalid filename format"

\* A step is a call of log_error.
LoggedNow == pc = "log" /\ Len(calls') = Len(calls) + 1

\* error_data of that call.
LoggedRecord == calls'[Len(calls')].error_data

\* The file holds an error-log document.
WellFormedLog(doc) ==
    doc.exists /\ "errors" \in DOMAIN doc /\ "total_errors" \in DOMAIN doc

\* C12 as stated: after every call of log_error the file holds a document
\* whose total_errors is the length of errors, whose errors are those it held
\* before the call, in order, followed by the new record; and after n calls
\* on a folder that had no errors.json, total_errors is n.
C12_LogConsistentAfterEveryCall ==
    [][ LoggedNow =>
          /\ WellFormedLog(errors_json')
          /\ errors_json'.total_errors = Len(errors_json'.errors)
          /\ errors_json'.errors # <<>>
          /\ errors_json'.errors[Len(errors_json'.errors)] = LoggedRecord
          /\ WellFormedLog(errors_json) =>
                errors_json'.errors = Append(errors_json.errors, LoggedRecord)
          /\ ~calls'[1].before.exists => errors_json'.total_errors = Len(calls')
      ]_vars

\* C13 as stated: when log_error returns, so that its caller moves on to the
\* next row or file, the file on disk holds a document that ends with the
\* record of the failure just logged.
C13_RecordedBeforeMovingOn ==
    [][ (LoggedNow /\ status' = "returned") =>
          /\ WellFormedLog(errors_json')
          /\ \E i \in DOMAIN errors_json'.errors :
                /\ errors_json'.errors[i] = LoggedRecord
                /\ i = Len(errors_json'.errors)
      ]_vars

\* The dtypes derived from the table schema cannot represent some cell of
\* the current file.
SchemaCoercionFails ==
    CoercionFails(CurFile,
                  _get_csv_dtypes_from_schema(CurFile.header, CurTable, TRUE),
                  1, Len(CurFile.rows))

\* C14 as stated: a validated append or update file whose data the
\* schema-derived dtypes cannot represent, in a run where no store call
\* raises, is not aborted: when the loop is done with it the file is
\* completed, every row has been handled, it was read with every column as
\* text and its only error record of file level is the one of the coercion
\* failure.
C14_CoercionFailureFallsBackToText ==
    (/\ file_i > 0 /\ pc = "loop" /\ failures = 0
     /\ status \in {"completed", "aborted"}
     /\ SchemaCoercionFails) =>
        /\ status = "completed"
        /\ Len(outcomes) = Len(CurFile.rows)
        /\ dtypes = AllStr(CurFile.header)
        /\ CountOf(FileErrors("CSV type conversion failed, reading as strings")) = 1
        /\ FileErrors("Append operation failed") = {}
        /\ FileErrors("Processing failed") = {}

\* The INSERT calls issued for the current file, in order.
InsertCalls == SelectSeq(calls, LAMBDA c : c.op = "insert")

\* C15 as stated: an append file that passed validation and whose pass
\* completed has had exactly one INSERT per data row, in row order, and no
\* count query.
C15_AppendInsertsEveryRow ==
    (AtAppendFile /\ status = "completed") =>
        /\ Len(InsertCalls) = Len(CurFile.rows)
        /\ \A i \in DOMAIN InsertCalls : InsertCalls[i].row = i /\ InsertCalls[i].ok
        /\ \A i \in DOMAIN calls : calls[i].op \notin {"count", "update"}

RowAtHand == IF pc = "append_rows" THEN df[idx + 1] ELSE NextRow

\* C17: in every INSERT and every UPDATE issued for a row, a column is named
\* exactly when the row's value for it is not missing; the value written is
\* NULL when the row's value is an empty or whitespace-only string and a
\* non-blank value otherwise; and after the statement no record of the table
\* holds a blank string.
C17_BlankIsNullMissingIsOmitted ==
    [][ \A i \in DOMAIN NewCalls :
          NewCalls[i].op \in {"insert", "update"} =>
            LET pr == NewCalls[i].pairs IN
            /\ \A c \in Range(CurFile.header) :
                  (RowAtHand[c] = NA) <=> (c \notin Range(NamesOf(pr)))
            /\ \A j \in DOMAIN pr :
                  IF Strip(RowAtHand[pr[j][1]]) = <<>>
                  THEN pr[j][2] = NULL
                  ELSE pr[j][2] # NULL /\ Strip(pr[j][2]) # <<>>
            /\ \A r \in DOMAIN store'[CurTable] : \A c \in DbColumns(CurTable) :
                  Strip(store'[CurTable][r][c]) # <<>>
      ]_vars

C17_Witness ==
    /\ AtAppendFile
    /\ \E i \in DOMAIN calls :
          /\ calls[i].op = "insert" /\ calls[i].ok
          /\ <<c_v, NULL>> \in Range(calls[i].pairs)
          /\ store[CurTable][Len(store[CurTable])][c_v] = NULL
          /\ store[CurTable][Len(store[CurTable])][c_n] # NULL

\* INSERT and UPDATE statements among the given calls.
Mutations(cs) == SelectSeq(cs, LAMBDA c : c.op \in {"insert", "update"})

\* C18: every mutation of the store follows a successful snapshot taken once,
\* at the start of the run. The copy is made in one step, before any file is
\* looked at and before any statement, and it holds what the source holds;
\* a step that issues an INSERT or UPDATE, or changes the store otherwise,
\* is taken with the copy in place; when the source database is missing the
\* snapshot step ends the process with status 1, no file processed.
C18_MutationsFollowSnapshot ==
    [][ /\ db_path' # db_path =>
              /\ pc = "snapshot" /\ ~dry_run
              /\ db_path = NoPath /\ db_path' = SnapshotPath
              /\ source_db.exists
              /\ store' = source_db.tables
              /\ file_i = 0 /\ calls = <<>>
        /\ (Mutations(NewCalls) # <<>> \/ (store' # store /\ pc # "snapshot")) =>
              /\ db_path = SnapshotPath
              /\ db_path' = SnapshotPath
        /\ (pc = "snapshot" /\ ~dry_run /\ ~source_db.exists) =>
              /\ exit_code' = "exit_1" /\ pc' = "exited"
              /\ file_i' = 0 /\ calls' = <<>> /\ outcomes' = <<>>
              /\ store' = store /\ db_path' = NoPath
      ]_vars

\* A run whose snapshot was made and in which a statement changed the store.
C18_Witness ==
    /\ db_path = SnapshotPath
    /\ Mutations(calls) # <<>>
    /\ store # source_db.tables

\* A real run without a source database has ended at the snapshot.
C18_MissingSourceWitness ==
    /\ ~dry_run /\ ~source_db.exists
    /\ pc = "exited" /\ exit_code = "exit_1"
    /\ file_i = 0

\* The process exits with status 1 only at the stages before the file loop
\* and process_csv_files never lets an exception through.
StartStages == {"main", "find_folder", "snapshot"}

\* C19: the exit code is non-zero only for what prevents the batch from
\* starting: status 1 is set at a stage before the file loop, and once the
\* loop has begun no error ends it before every file was attempted.
C19_NonZeroExitOnlyBeforeStart ==
    [][ /\ (exit_code' = "exit_1" /\ exit_code # "exit_1") => pc \in StartStages
        /\ pc' # "raised"
        /\ pc' = "done" => file_i = Len(csv_files)
      ]_vars

\* Connections the statements so far have opened and not closed.
OpenedAndNotClosed ==
    Len(SelectSeq(calls, LAMBDA c : c.op = "connect" /\ c.ok))
        - Len(SelectSeq(calls, LAMBDA c : c.op = "close"))

\* C20: every connection opened by a schema read, a validation or a
\* processing pass is closed when the operation exits. The only connection
\* open between two steps is the one of the processing pass under way, and
\* none is open between files, nor once process_csv_files has returned or
\* raised.
C20_ConnectionsClosedOnExit ==
    /\ open_conns = OpenedAndNotClosed
    /\ open_conns = (IF pc \in {"append_rows", "update_rows"} THEN 1 ELSE 0)

\* process_csv_files is over, by return or by exception, after a file whose
\* processing pass failed with its connection open.
C20_Witness ==
    /\ pc \in {"done", "raised"}
    /\ open_conns = 0
    /\ \E i \in DOMAIN calls : calls[i].op \in {"insert", "update", "count"} /\ ~calls[i].ok
    /\ \E i \in DOMAIN calls : calls[i].op = "close"

\* normalize(x): one call of _convert_date_value, as an operator over DateInputs.
IsCanonical(x) ==
    /\ x # NA
    /\ Len(x) = 10
    /\ x[5] = "-" /\ x[8] = "-"
    /\ \A i \in {1, 2, 3, 4, 6, 7, 9, 10} : x[i] \in Digit

\* C21: _convert_date_value is idempotent, a second application returns what
\* the first returned, and a value already of the form YYYY-MM-DD is
\* returned unchanged.
C21_ConvertDateIdempotent ==
    /\ Len(output) >= 2 => output[2] = output[1]
    /\ (Len(output) >= 1 /\ IsCanonical(input)) => output[1] = input

\* A text that the first application rewrote and the second left alone.
C21_Witness ==
    /\ Len(output) = 2
    /\ input # NA
    /\ output[1] # input
    /\ IsCanonical(output[1])
    /\ output[2] = output[1]

\* No pattern of date_patterns matches the text with a rewrite that is a
\* calendar date.
Unrecognized(x) ==
    x = NA \/ \A k \in DOMAIN date_patterns : TryPattern(x, date_patterns[k]) = <<>>

\* C22: a text that matches no pattern, or matches one whose rewrite is not
\* a calendar date, is returned exactly as given.
C22_UnrecognizedReturnedAsGiven ==
    (Len(output) >= 1 /\ Unrecognized(input)) => output[1] = input

\* x is <table>_<append|update>_<digits>.csv from its first to its last
\* character, with a table and a number of at least one character.
WholeNameMatches(x) ==
    \E i, j \in DOMAIN x :
        /\ i > 1 /\ i < j /\ j + 1 <= Len(x) - 4
        /\ x[i] = "_" /\ x[j] = "_"
        /\ SubSeq(x, i + 1, j - 1) \in {APPEND, UPDATE}
        /\ AllDigits(SubSeq(x, j + 1, Len(x) - 4))
        /\ SubSeq(x, Len(x) - 3, Len(x)) = <<".", "c", "s", "v">>

\* Where the last _append_ or _update_ of x begins (0 when there is none).
LastKeyword(x) ==
    LET at == {i \in 1..(Len(x) - 7) : \E op \in {APPEND, UPDATE} :
                    SubSeq(x, i, i + 7) = <<"_">> \o op \o <<"_">>}
    IN IF at = {} THEN 0 ELSE CHOOSE i \in at : \A k \in at : k <= i

\* C23: parse_csv_filename succeeds exactly when the whole name is
\* <table>_<append|update>_<digits>.csv and fails otherwise; on success the
\* table is what precedes the last keyword, the operation is append or
\* update and the sequence is made of digits.
C23_ParseExactlyWholeNameMatches ==
    output # <<>> =>
        /\ output[1].ok <=> WholeNameMatches(input)
        /\ output[1].ok =>
              /\ output[1].table_name = SubSeq(input, 1, LastKeyword(input) - 1)
              /\ output[1].job_type \in {APPEND, UPDATE}
              /\ output[1].seq_num # <<>> /\ AllDigits(output[1].seq_num)

\* The same for the names that hold no newline.
C23_HoldsWithoutNewline ==
    (output # <<>> /\ \A i \in DOMAIN input : input[i] # "\n") =>
        /\ output[1].ok <=> WholeNameMatches(input)
        /\ output[1].ok =>
              /\ output[1].table_name = SubSeq(input, 1, LastKeyword(input) - 1)
              /\ output[1].job_type \in {APPEND, UPDATE}
              /\ output[1].seq_num # <<>> /\ AllDigits(output[1].seq_num)

\* C24: the row number of a NoFilterCondition or Conflict record is the
\* 1-based position of the row among the data rows of its file, in the
\* first chunk and beyond it.
C24_ErrorRowIsPosition ==
    [][ (/\ pc = "update_rows"
         /\ Len(NewErrors) = 1
         /\ "row" \in DOMAIN NewErrors[1]) => NewErrors[1].row = idx + 1
      ]_vars

\* The outcome the step gives to the row at hand, "none" when it gives none.
NewOutcome ==
    IF Len(outcomes') = Len(outcomes) + 1 THEN outcomes'[Len(outcomes')] ELSE "none"

\* C25: a row-level error of an update file skips that row only.  The step
\* that logs it leaves the pass at the following row, with the connection
\* open, the file neither aborted nor completed and the store as it was;
\* and a pass that completes has given an outcome to every row of the file.
C25_RowErrorSkipsOnlyThatRow ==
    [][ /\ (pc = "update_rows" /\ NewOutcome \in {"Skipped", "Conflict"}) =>
              /\ pc' = "update_rows"
              /\ idx' = idx + 1
              /\ idx' = Len(outcomes')
              /\ open_conns' = open_conns
              /\ status' = status
              /\ store' = store
              /\ Len(NewErrors) = 1
        /\ (pc = "update_rows" /\ status' = "completed") =>
              /\ idx = Len(CurFile.rows)
              /\ Len(outcomes) = Len(CurFile.rows)
      ]_vars

\* A Skipped row and a Conflict row, each followed by a row that was
\* Inserted or Updated, in a pass that has completed.
C25_Witness ==
    /\ AtUpdateFile /\ status = "completed"
    /\ \E r \in DOMAIN outcomes :
          /\ outcomes[r] = "Skipped"
          /\ \E q \in DOMAIN outcomes : q > r /\ outcomes[q] \in {"Inserted", "Updated"}
    /\ \E r \in DOMAIN outcomes :
          /\ outcomes[r] = "Conflict"
          /\ \E q \in DOMAIN outcomes : q > r /\ outcomes[q] \in {"Inserted", "Updated"}

\* The INSERT and UPDATE statements of the step that succeeded.
NewWrites ==
    SelectSeq(NewCalls, LAMBDA c : c.op \in {"insert", "update"} /\ c.ok)

\* The records of the table once statement c has been executed on recs.
Applied(c, recs) ==
    IF c.op = "insert" THEN DbInsert(CurTable, recs, c.pairs)
    ELSE DbUpdate(CurTable, recs, c.pairs, c.where)

\* C26: files are processed one after another and the rows of a file in
\* file order, the statements of a row done before the next row's count.
\* A new file is begun only between files, with no connection open; rows
\* advance by one; the count of a row is issued before its INSERT or UPDATE
\* and is the number of matching records of the store as every earlier
\* statement of the run has left it; the store changes only by the one
\* statement a step issues, applied to the store as it stood.
C26_SequentialCountsSeeEarlierWrites ==
    [][ /\ file_i' # file_i =>
              /\ file_i' = file_i + 1
              /\ pc = "loop" /\ open_conns = 0
        /\ (idx' # idx /\ file_i' = file_i) => idx' = idx + 1
        /\ \A i \in DOMAIN NewCalls :
              (NewCalls[i].op = "count" /\ NewCalls[i].ok) =>
                 /\ NewCalls[i].row = idx + 1
                 /\ NewCalls[i].result =
                       CountOf({r \in DOMAIN store[CurTable] :
                                  RecordMatches(CurTable, store[CurTable][r],
                                                NewCalls[i].where)})
                 /\ \A j \in DOMAIN NewCalls :
                       NewCalls[j].op \in {"insert", "update"} =>
                          j > i /\ NewCalls[j].row = idx + 1
        /\ pc # "snapshot" =>
              /\ Len(NewWrites) <= 1
              /\ store' = IF NewWrites = <<>> THEN store
                          ELSE [store EXCEPT ![CurTable] = Applied(NewWrites[1], @)]
      ]_vars

\* Two rows of one file with the same filter values and no match before:
\* the first was counted 0 and inserted, the second counted 1 and updated.
C26_Witness ==
    /\ AtUpdateFile
    /\ \E a, b, c, d \in DOMAIN calls :
          /\ a < b /\ b < c /\ c < d
          /\ calls[a].op = "count" /\ calls[a].result = 0
          /\ calls[b].op = "insert" /\ calls[b].ok /\ calls[b].row = calls[a].row
          /\ calls[c].op = "count" /\ calls[c].result = 1
          /\ calls[c].where = calls[a].where /\ calls[c].row > calls[a].row
          /\ calls[d].op = "update" /\ calls[d].ok /\ calls[d].row = calls[c].row

\* A count of the second file that sees what the first file inserted.
C26_AcrossFilesWitness ==
    /\ AtUpdateFile /\ file_i = 2
    /\ source_db.exists /\ source_db.tables[tbl_t] = <<>>
    /\ \E a \in DOMAIN calls : calls[a].op = "count" /\ calls[a].ok /\ calls[a].result >= 1
                                /\ calls[a].row = 1

\* C27: log_error does not fail because of what errors.json holds.  When
\* the file is absent or does not hold an error-log document and the write
\* succeeds, the call returns and the file holds the new record alone, with
\* total_errors 1.
C27_AbsentOrCorruptLogStartsAfresh ==
    [][ (/\ LoggedNow
         /\ ~WellFormedLog(errors_json)
         /\ calls'[Len(calls')].write = "ok") =>
          /\ status' = "returned"
          /\ errors_json' = [exists |-> TRUE, total_errors |-> 1,
                             errors |-> <<LoggedRecord>>]
      ]_vars

\* The same for a file that is absent or is not JSON at all.
C27_AbsentOrUndecodableStartsAfresh ==
    [][ (/\ LoggedNow
         /\ (~errors_json.exists \/ errors_json = InvalidJsonFile)
         /\ calls'[Len(calls')].write = "ok") =>
          /\ status' = "returned"
          /\ errors_json' = [exists |-> TRUE, total_errors |-> 1,
                             errors |-> <<LoggedRecord>>]
      ]_vars

\* The database files the connections of the step open.
NewPaths == {NewCalls[i].path : i \in {j \in DOMAIN NewCalls : NewCalls[j].op = "connect"}}

\* C28: the baseline database is never mutated.  No step changes it; every
\* connection a run opens, for a schema read, a count, an INSERT or an
\* UPDATE, is to the copy in the job folder and never to DATABASE_PATH, and
\* statements are issued in real runs only, with the copy in place; a dry
\* run opens no connection and changes no database.
C28_SourceNeverMutated ==
    [][ /\ source_db' = source_db
        /\ NewPaths \subseteq {SnapshotPath}
        /\ DATABASE_PATH \notin NewPaths
        /\ NewCalls # <<>> => (~dry_run /\ db_path = SnapshotPath /\ open_conns' <= 1)
        /\ dry_run => (calls' = <<>> /\ store' = store /\ db_path' = NoPath)
      ]_vars

\* A real run has ended after statements that changed the copy; the
\* baseline holds what it held.
C28_Witness ==
    /\ pc = "exited" /\ ~dry_run
    /\ db_path = SnapshotPath
    /\ source_db.exists
    /\ store # source_db.tables

\* The records of the table, after the step, that the filter predicate of
\* the row at hand matches: what a second pass over the row would count.
MatchesAfter ==
    {r \in DOMAIN store'[CurTable] :
        RecordMatches(CurTable, store'[CurTable][r],
                      where_conditions(NextRow, FilterFieldsOf(CurTable)))}

\* Date normalisation leaves the filter values of the row at hand as they are.
FilterValuesKept ==
    \A f \in Range(FilterFieldsOf(CurTable)) :
        f \in DOMAIN NextRow =>
            _preprocess_row_data(NextRow, _get_table_schema(CurTable))[f] = NextRow[f]

C29_HoldsForKeptFilterValues ==
    [][ (pc = "update_rows" /\ NewOutcome = "Inserted" /\ FilterValuesKept) =>
            CountOf(MatchesAfter) >= 1
      ]_vars

\* A count, INSERT or UPDATE of the step raised.
StatementFailed ==
    \E i \in DOMAIN NewCalls :
        NewCalls[i].op \in {"count", "insert", "update"} /\ ~NewCalls[i].ok

\* The records of the table after the statements ws, in order, on recs.
RECURSIVE Replay(_, _)
Replay(ws, recs) ==
    IF ws = <<>> THEN recs ELSE Replay(Tail(ws), Applied(Head(ws), recs))

\* The INSERT and UPDATE statements of the file so far that succeeded.
WritesDone(cs) ==
    SelectSeq(cs, LAMBDA c : c.op \in {"insert", "update"} /\ c.ok)

\* C30: no rollback on a mid-file failure.  When a statement of row k of an
\* append or update file raises, the store is left as the statements of
\* rows 1..k-1 made it (in the first file of a run: the baseline with those
\* statements applied), the pass ends at row k with no row from k on
\* applied, and the log gains one file-level record after the records it
\* already held.
C30_NoRollbackOnMidFileFailure ==
    [][ (pc \in {"append_rows", "update_rows"} /\ StatementFailed) =>
          /\ store' = store
          /\ file_i = 1 =>
                store'[CurTable] = Replay(WritesDone(calls'), source_db.tables[CurTable])
          /\ \A i \in DOMAIN calls' :
                (calls'[i].op \in {"insert", "update"} /\ calls'[i].ok) =>
                    calls'[i].row <= idx
          /\ idx' = idx /\ outcomes' = outcomes
          /\ pc' = "loop" /\ status' = "aborted"
          /\ errors_json'.errors =
                Append(errors_json.errors,
                       errors_json'.errors[Len(errors_json'.errors)])
          /\ CountOf(NewFileErrors) = 1
          /\ "row" \notin DOMAIN errors_json'.errors[Len(errors_json'.errors)]
      ]_vars

\* An update file aborted at a row after an insert or update and a
\* row-level error of earlier rows: the store keeps the change and the log
\* holds the row-level record and then the file-level one.
C30_Witness ==
    /\ AtUpdateFile /\ status = "aborted" /\ file_i = 1
    /\ idx >= 2
    /\ WritesDone(calls) # <<>>
    /\ store # source_db.tables
    /\ Len(errors_json.errors) >= 2
    /\ "row" \in DOMAIN errors_json.errors[1]
    /\ errors_json.errors[Len(errors_json.errors)].error = "Processing failed"

\* An append file aborted at its second row: the first row's record stays.
C30_AppendWitness ==
    /\ AtAppendFile /\ status = "aborted" /\ file_i = 1
    /\ idx = 1
    /\ Len(store[CurTable]) = Len(source_db.tables[CurTable]) + 1
    /\ errors_json.errors[Len(errors_json.errors)].error = "Append operation failed"

====
